---- MODULE Spec2Model ----
(***************************************************************************)
(* Verification model of the api-agent recipe subsystem:                   *)
(*   - api_agent/recipe/store.py   (question matching, RecipeStore)        *)
(*   - api_agent/recipe/common.py  (search, validate_and_prepare_recipe)  *)
(*   - api_agent/recipe/runner.py  (execute_recipe_tool)                   *)
(*   - api_agent/agent/*_agent.py  (per-recipe agent tools)                *)
(*                                                                         *)
(* Strings are sequences of one-character strings.  Scores are exact       *)
(* rationals <<numerator, denominator>> with a positive denominator.       *)
(* uuid4-derived recipe ids are taken to be unique.                        *)
(***************************************************************************)
EXTENDS Integers, Sequences, FiniteSets, TLC

(* ------------------------------ bounds -------------------------------- *)
MaxLen == 3        \* longest question of the matching specification
MaxIds == 3        \* number of save_recipe calls in one behaviour
MaxTime == 1       \* largest value of the wall clock
MaxCap == 2        \* largest capacity argument of RecipeStore(max_size)
MaxSigLen == 2     \* longest stored question of the matching specification
MaxSteps == 2      \* longest list of API steps of a trace or a candidate
MaxPieces == 2     \* most pieces of text a template under test is put together from
MaxRestCalls == 2  \* most calls tracked in _rest_calls during one request
MaxCalls == 3      \* calls of deduplicate_tool_name that share one seen_names set
MaxRequests == 2   \* requests handled one after the other in one task
MaxTools == 2      \* tool calls of one request
MaxFill == 41      \* most repetitions of a character in a question to be sanitized
MaxPolls == 3      \* settings.MAX_POLLS of the server that polls

(* --------------------------- characters -------------------------------- *)
Alphabet == {"a", "b", "A", " ", "-"}

\* str.lower() on the characters of Alphabet
LowerChar(c) == CASE c = "A" -> "a" [] c = "B" -> "b" [] OTHER -> c

\* the regular-expression class \s, and the characters str.strip() removes
IsSpace(c) == c \in {" ", "\t", "\n"}

\* the regular-expression class [a-z0-9]
IsTokenChar(c) == c \in {"a", "b", "c", "0", "1"}

\* code-point order of the characters used, as str comparison sees it
CharOrd(c) ==
    CASE c = "\t" -> 9 [] c = "\n" -> 10 [] c = " " -> 32 [] c = "-" -> 45
      [] c = "0" -> 48 [] c = "1" -> 49 [] c = "A" -> 65 [] c = "B" -> 66
      [] c = "a" -> 97 [] c = "b" -> 98 [] c = "c" -> 99 [] OTHER -> 127

\* all strings over Alphabet of length at most n
StringsUpTo(n) == UNION {[1..k -> Alphabet] : k \in 0..n}

(* ----------------------- _normalize_question --------------------------- *)
RECURSIVE LStrip(_)
LStrip(s) == IF s # <<>> /\ IsSpace(Head(s)) THEN LStrip(Tail(s)) ELSE s

RECURSIVE RStrip(_)
RStrip(s) ==
    IF s # <<>> /\ IsSpace(s[Len(s)]) THEN RStrip(SubSeq(s, 1, Len(s) - 1)) ELSE s

\* str.strip()
Strip(s) == RStrip(LStrip(s))

\* str.lower()
LowerStr(s) == [i \in 1..Len(s) |-> LowerChar(s[i])]

\* re.sub(r"\s+", " ", s): every maximal run of whitespace becomes one space
RECURSIVE CollapseWs(_)
CollapseWs(s) ==
    IF s = <<>> THEN <<>>
    ELSE IF IsSpace(Head(s))
         THEN <<" ">> \o CollapseWs(LStrip(s))
         ELSE <<Head(s)>> \o CollapseWs(Tail(s))

\* _normalize_question(q) = re.sub(r"\s+", " ", (q or "").strip().lower())
NormalizeQuestion(q) == CollapseWs(LowerStr(Strip(q)))

(* ------------------------------ _tokens -------------------------------- *)
\* the longest prefix of s made of token characters
RECURSIVE TokenPrefix(_)
TokenPrefix(s) ==
    IF s # <<>> /\ IsTokenChar(Head(s)) THEN <<Head(s)>> \o TokenPrefix(Tail(s)) ELSE <<>>

\* re.findall(r"[a-z0-9]+", s) as a set
RECURSIVE FindAllTokens(_)
FindAllTokens(s) ==
    IF s = <<>> THEN {}
    ELSE IF IsTokenChar(Head(s))
         THEN LET t == TokenPrefix(s)
              IN {t} \cup FindAllTokens(SubSeq(s, Len(t) + 1, Len(s)))
         ELSE FindAllTokens(Tail(s))

\* _tokens(q) = set(re.findall(r"[a-z0-9]+", _normalize_question(q)))
Tokens(q) == FindAllTokens(NormalizeQuestion(q))

(* ------------------- sorted(...) and " ".join(...) --------------------- *)
RECURSIVE StrLess(_, _)
StrLess(a, b) ==
    IF a = <<>> THEN b # <<>>
    ELSE IF b = <<>> THEN FALSE
    ELSE IF Head(a) = Head(b) THEN StrLess(Tail(a), Tail(b))
    ELSE CharOrd(Head(a)) < CharOrd(Head(b))

MinStr(T) == CHOOSE t \in T : \A u \in T \ {t} : StrLess(t, u)

\* " ".join(sorted(T))
RECURSIVE SortedJoin(_)
SortedJoin(T) ==
    IF T = {} THEN <<>>
    ELSE LET m == MinStr(T)
         IN IF T = {m} THEN m ELSE m \o <<" ">> \o SortedJoin(T \ {m})

(* ------------------------ exact rational scores ------------------------ *)
RECURSIVE Gcd(_, _)
Gcd(a, b) == IF b = 0 THEN a ELSE Gcd(b, a % b)

\* the same rational in lowest terms
Reduce(x) == LET g == Gcd(x[1], x[2]) IN <<x[1] \div g, x[2] \div g>>

RatLess(x, y) == x[1] * y[2] < y[1] * x[2]

RatEq(x, y) == x[1] * y[2] = y[1] * x[2]

RatMax(x, y) == IF RatLess(x, y) THEN y ELSE x

MaxInt(a, b) == IF a >= b THEN a ELSE b

MinInt(a, b) == IF a <= b THEN a ELSE b

(* ---------------- rapidfuzz.fuzz, as called by _similarity ------------- *)
\* length of a longest common subsequence
RECURSIVE LCSLen(_, _)
LCSLen(a, b) ==
    IF a = <<>> \/ b = <<>> THEN 0
    ELSE IF Head(a) = Head(b) THEN 1 + LCSLen(Tail(a), Tail(b))
    ELSE MaxInt(LCSLen(Tail(a), b), LCSLen(a, Tail(b)))

\* Indel distance: insertions and deletions only
IndelDistance(a, b) == Len(a) + Len(b) - 2 * LCSLen(a, b)

\* 100 - 100 * dist / lensum, and 100 for two empty strings
NormDistance(dist, lensum) ==
    IF lensum > 0 THEN Reduce(<<100 * (lensum - dist), lensum>>) ELSE <<100, 1>>

\* fuzz.ratio
Ratio(a, b) == NormDistance(IndelDistance(a, b), Len(a) + Len(b))

\* str.split(): the set of maximal runs of non-whitespace characters
RECURSIVE NonSpacePrefix(_)
NonSpacePrefix(s) ==
    IF s # <<>> /\ ~IsSpace(Head(s)) THEN <<Head(s)>> \o NonSpacePrefix(Tail(s)) ELSE <<>>

RECURSIVE SplitWs(_)
SplitWs(s) ==
    IF s = <<>> THEN {}
    ELSE IF IsSpace(Head(s)) THEN SplitWs(Tail(s))
    ELSE LET t == NonSpacePrefix(s)
         IN {t} \cup SplitWs(SubSeq(s, Len(t) + 1, Len(s)))

\* fuzz.token_set_ratio with the default score_cutoff
TokenSetRatio(s1, s2) ==
    LET tokens_a == SplitWs(s1)
        tokens_b == SplitWs(s2)
        intersect == tokens_a \cap tokens_b
        diff_ab == tokens_a \ tokens_b
        diff_ba == tokens_b \ tokens_a
        diff_ab_joined == SortedJoin(diff_ab)
        diff_ba_joined == SortedJoin(diff_ba)
        ab_len == Len(diff_ab_joined)
        ba_len == Len(diff_ba_joined)
        sect_len == Len(SortedJoin(intersect))
        sep == IF sect_len # 0 THEN 1 ELSE 0
        sect_ab_len == sect_len + sep + ab_len
        sect_ba_len == sect_len + sep + ba_len
        result == NormDistance(IndelDistance(diff_ab_joined, diff_ba_joined),
                               sect_ab_len + sect_ba_len)
        sect_ab_ratio == NormDistance(sep + ab_len, sect_len + sect_ab_len)
        sect_ba_ratio == NormDistance(sep + ba_len, sect_len + sect_ba_len)
    IN IF tokens_a = {} \/ tokens_b = {} THEN <<0, 1>>
       ELSE IF intersect # {} /\ (diff_ab = {} \/ diff_ba = {}) THEN <<100, 1>>
       ELSE IF sect_len = 0 THEN result
       ELSE RatMax(result, RatMax(sect_ab_ratio, sect_ba_ratio))

\* largest element of a non-empty set of rationals, <<0, 1>> for the empty set
RECURSIVE RatMaxOf(_)
RatMaxOf(S) ==
    IF S = {} THEN <<0, 1>>
    ELSE LET x == CHOOSE y \in S : TRUE IN RatMax(x, RatMaxOf(S \ {x}))

Chars(s) == {s[i] : i \in 1..Len(s)}

\* _partial_ratio_impl(s1, s2) for len(s1) <= len(s2): the best fuzz.ratio of s1
\* against a prefix shorter than s1, a window as long as s1, or a suffix of s2
PartialRatioImpl(s1, s2) ==
    LET len1 == Len(s1)
        len2 == Len(s2)
        prefixes == {SubSeq(s2, 1, i) : i \in {j \in 1..(len1 - 1) : s2[j] \in Chars(s1)}}
        windows == {SubSeq(s2, i + 1, i + len1) :
                       i \in {j \in 0..(len2 - len1 - 1) : s2[j + len1] \in Chars(s1)}}
        suffixes == {SubSeq(s2, i + 1, len2) :
                       i \in {j \in (len2 - len1)..(len2 - 1) : s2[j + 1] \in Chars(s1)}}
    IN RatMaxOf({Ratio(s1, w) : w \in prefixes \cup windows \cup suffixes})

\* fuzz.partial_ratio
PartialRatio(s1, s2) ==
    LET shorter == IF Len(s1) <= Len(s2) THEN s1 ELSE s2
        longer == IF Len(s1) <= Len(s2) THEN s2 ELSE s1
        res == PartialRatioImpl(shorter, longer)
    IN IF s1 = <<>> /\ s2 = <<>> THEN <<100, 1>>
       ELSE IF ~RatEq(res, <<100, 1>>) /\ Len(s1) = Len(s2)
            THEN RatMax(res, PartialRatioImpl(longer, shorter))
            ELSE res

\* fuzz.partial_token_set_ratio
PartialTokenSetRatio(s1, s2) ==
    LET tokens_a == SplitWs(s1)
        tokens_b == SplitWs(s2)
    IN IF tokens_a = {} \/ tokens_b = {} THEN <<0, 1>>
       ELSE IF tokens_a \cap tokens_b # {} THEN <<100, 1>>
       ELSE PartialRatio(SortedJoin(tokens_a \ tokens_b), SortedJoin(tokens_b \ tokens_a))

(* ----------------------------- _similarity ----------------------------- *)
\* (0.55 * base + 0.25 * extra + 0.20 * token_balance) / 100.0
Blend(base, extra, token_balance) ==
    Reduce(<<55 * base[1] * extra[2] * token_balance[2]
        + 25 * extra[1] * base[2] * token_balance[2]
        + 20 * token_balance[1] * base[2] * extra[2],
      10000 * base[2] * extra[2] * token_balance[2]>>)

\* a _similarity without the shortcut for equal normalized strings
SimilarityNoShortcut(query, signature) ==
    LET q_tokens == Tokens(query)
        s_tokens == Tokens(signature)
        common == Cardinality(q_tokens \cap s_tokens)
        overlap == <<common, MaxInt(Cardinality(q_tokens), 1)>>
        coverage == <<common, MaxInt(Cardinality(s_tokens), 1)>>
        lesser == IF RatLess(coverage, overlap) THEN coverage ELSE overlap
    IN IF NormalizeQuestion(query) = <<>> \/ NormalizeQuestion(signature) = <<>>
       THEN <<0, 1>>
       ELSE IF q_tokens = {} \/ s_tokens = {} THEN <<0, 1>>
       ELSE Blend(TokenSetRatio(SortedJoin(q_tokens), SortedJoin(s_tokens)),
                  PartialTokenSetRatio(SortedJoin(q_tokens), SortedJoin(s_tokens)),
                  Reduce(<<100 * lesser[1], lesser[2]>>))

\* a _similarity that matches the normalized strings instead of their sorted tokens
SimilarityOfText(query, signature) ==
    LET q_norm == NormalizeQuestion(query)
        s_norm == NormalizeQuestion(signature)
        q_tokens == Tokens(query)
        s_tokens == Tokens(signature)
        common == Cardinality(q_tokens \cap s_tokens)
        overlap == <<common, MaxInt(Cardinality(q_tokens), 1)>>
        coverage == <<common, MaxInt(Cardinality(s_tokens), 1)>>
        lesser == IF RatLess(coverage, overlap) THEN coverage ELSE overlap
    IN IF q_norm = <<>> \/ s_norm = <<>> THEN <<0, 1>>
       ELSE IF q_norm = s_norm THEN <<1, 1>>
       ELSE IF q_tokens = {} \/ s_tokens = {} THEN <<0, 1>>
       ELSE Blend(TokenSetRatio(q_norm, s_norm),
                  PartialTokenSetRatio(q_norm, s_norm),
                  Reduce(<<100 * lesser[1], lesser[2]>>))

\* _similarity(query, signature)
Similarity(query, signature) ==
    LET q_norm == NormalizeQuestion(query)
        s_norm == NormalizeQuestion(signature)
        q_tokens == Tokens(query)
        s_tokens == Tokens(signature)
        q_text == SortedJoin(q_tokens)
        s_text == SortedJoin(s_tokens)
        common == Cardinality(q_tokens \cap s_tokens)
        \* min(overlap, coverage) * 100 with overlap = common / |q|, coverage = common / |s|
        overlap == <<common, MaxInt(Cardinality(q_tokens), 1)>>
        coverage == <<common, MaxInt(Cardinality(s_tokens), 1)>>
        lesser == IF RatLess(coverage, overlap) THEN coverage ELSE overlap
        token_balance == Reduce(<<100 * lesser[1], lesser[2]>>)
    IN IF q_norm = <<>> \/ s_norm = <<>> THEN <<0, 1>>
       ELSE IF q_norm = s_norm THEN <<1, 1>>
       ELSE IF q_tokens = {} \/ s_tokens = {} THEN <<0, 1>>
       ELSE Blend(TokenSetRatio(q_text, s_text),
                  PartialTokenSetRatio(q_text, s_text),
                  token_balance)

\* questions passed to save_recipe
StoreQuestions == {<<"B", " ", " ", "a">>, <<"a">>}

\* questions passed to suggest_recipes
QueryQuestions == {<<"a">>, <<>>}

\* score = _similarity(q_sig, r.question_sig)
Score(query, signature) == Similarity(query, signature)

\* round(score, 4) in units of 1/10000, ties to the even neighbour
Round4(score) ==
    LET n == 10000 * score[1]
        d == score[2]
        lo == n \div d
        r2 == 2 * (n % d)
    IN IF r2 < d THEN lo
       ELSE IF r2 > d THEN lo + 1
       ELSE IF lo % 2 = 0 THEN lo ELSE lo + 1

(* ------------------------- inputs of the store ------------------------- *)
RawSchemas == {"s1", "s2"}

\* sha256_hex: a digest that tells the schemas of the model apart
Sha256Hex(text) == <<"sha256", text>>

\* the (api_id, schema_hash) pairs in use: one API with its schema before and after
\* a change, and a second API
Keys ==
    {<<"rest:a|b", Sha256Hex("s1")>>, <<"rest:a|b", Sha256Hex("s2")>>,
     <<"graphql:a", Sha256Hex("s1")>>}

\* values of k passed to suggest_recipes
Ks == {-1, 1, 2}

ToolNames == {"get_users"}

(* ------------------------------- state --------------------------------- *)
VARIABLES
    asked,        \* the inputs under test, when a run follows given inputs: questions,
                  \* or the trace of an agent run with the extractor's answer
    max_size,     \* RecipeStore._max_size
    records,      \* RecipeStore._records: recipe_id -> RecipeRecord
    by_key,       \* RecipeStore._by_key: (api_id, schema_hash) -> ids, in iteration order
    lru,          \* RecipeStore._lru: ids, least recently touched first
    now,          \* time.time()
    next_id,      \* number of ids handed out by uuid4
    mutated,      \* nested objects (params, steps, sql_steps) changed in place
    saved,        \* history: stored recipe_id -> the key, question and recipe value
                  \* save_recipe was called with
    touched,      \* history: the stored ids in the order of their latest touch
    ret,          \* the last call: its arguments, the value returned (val) and, for
                  \* save and get, the recipe dict the caller is left holding (obj)
    agent         \* the agent request in flight: its key and the recipe tools bound to it

vars == <<asked, max_size, records, by_key, lru, now, next_id, mutated, saved, touched, ret, agent>>

Ids == 1..MaxIds

\* all orders of a finite set, as sequences without repetition
Perms(S) == {p \in [1..Cardinality(S) -> S] : \A i, j \in 1..Cardinality(S) : p[i] = p[j] => i = j}

Range(f) == {f[i] : i \in DOMAIN f}

Remove(seq, x) == SelectSeq(seq, LAMBDA y : y # x)

(* ---------------------------- RecipeStore ------------------------------ *)
\* RecipeStore.__init__: self._max_size = max(1, int(max_size))
InitMaxSize(arg) == MaxInt(1, arg)

\* _touch that leaves an id already present where it is
TouchKeepsPlace(l, recipe_id) ==
    IF \E n \in DOMAIN l : l[n] = recipe_id THEN l ELSE Append(l, recipe_id)

\* RecipeStore._touch: pop the id from the OrderedDict and append it
Touch(l, recipe_id) == Append(Remove(l, recipe_id), recipe_id)

\* RecipeStore._delete on st = [records, by_key, lru]
Delete(st, recipe_id) ==
    IF recipe_id \notin DOMAIN st.records
    THEN [st EXCEPT !.lru = Remove(st.lru, recipe_id)]
    ELSE LET rec == st.records[recipe_id]
             key == <<rec.api_id, rec.schema_hash>>
             rest == [i \in DOMAIN st.records \ {recipe_id} |-> st.records[i]]
             ids == IF key \in DOMAIN st.by_key THEN Remove(st.by_key[key], recipe_id) ELSE <<>>
         IN [records |-> rest,
             lru |-> Remove(st.lru, recipe_id),
             by_key |->
                 IF key \notin DOMAIN st.by_key \/ st.by_key[key] = <<>> THEN st.by_key
                 ELSE IF ids = <<>> THEN [k \in DOMAIN st.by_key \ {key} |-> st.by_key[k]]
                 ELSE [st.by_key EXCEPT ![key] = ids]]

\* _evict_if_needed that lets one record too many stay
EvictOneLate(st, cap) ==
    IF Cardinality(DOMAIN st.records) > cap + 1 /\ st.lru # <<>>
    THEN Delete(st, Head(st.lru))
    ELSE st

\* RecipeStore._evict_if_needed
RECURSIVE EvictIfNeeded(_, _)
EvictIfNeeded(st, cap) ==
    IF Cardinality(DOMAIN st.records) > cap /\ st.lru # <<>>
    THEN EvictIfNeeded(Delete(st, Head(st.lru)), cap)
    ELSE st

\* dict(recipe): a new top-level dict that shares the nested objects
ShallowCopy(recipe) == [f \in DOMAIN recipe |-> recipe[f]]

\* the value a reader sees through a recipe dict
View(recipe) ==
    [f \in DOMAIN recipe |->
        IF recipe[f] = <<>> THEN "replaced"
        ELSE IF recipe[f][1] \in mutated THEN "changed" ELSE "original"]

\* the RecipeRecord built by save_recipe
NewRecord(recipe_id, api_id, schema_hash, question, recipe, tool_name, t) ==
    [recipe_id |-> recipe_id,
     api_id |-> api_id,
     schema_hash |-> schema_hash,
     question |-> question,
     question_sig |-> NormalizeQuestion(question),
     question_tokens |-> Tokens(question),
     recipe |-> ShallowCopy(recipe),
     tool_name |-> tool_name,
     created_at |-> t,
     last_used_at |-> t]

\* set.add on the ids of a bucket: the id joins the set, at a place its hash decides
AddOrders(ids, recipe_id) == Perms(Range(ids) \cup {recipe_id})

\* the locked section of save_recipe
SaveLocked(st, rec, order, cap) ==
    LET key == <<rec.api_id, rec.schema_hash>>
        keys == DOMAIN st.by_key \cup {key}
        st1 == [records |-> [i \in DOMAIN st.records \cup {rec.recipe_id} |->
                                IF i = rec.recipe_id THEN rec ELSE st.records[i]],
                by_key |-> [k \in keys |-> IF k = key THEN order ELSE st.by_key[k]],
                lru |-> Touch(st.lru, rec.recipe_id)]
    IN EvictIfNeeded(st1, cap)

Store == [records |-> records, by_key |-> by_key, lru |-> lru]

\* time.time() reads the wall clock, which moves on between calls
Tick ==
    /\ now < MaxTime
    /\ now' = now + 1
    /\ UNCHANGED <<asked, max_size, records, by_key, lru, next_id, mutated, saved, touched, ret, agent>>

\* the recipe object a caller builds for its next save: its nested objects are new
FreshRecipe(recipe_id) == [steps |-> <<recipe_id>>]

\* save_recipe(api_id, schema_hash, question, recipe, tool_name), its key and question
\* drawn from keys and questions
Save(keys, questions) ==
    /\ next_id < MaxIds
    /\ \E key \in keys, question \in questions, tool_name \in ToolNames :
         LET api_id == key[1]
             schema_hash == key[2]
             recipe_id == next_id + 1
             recipe == FreshRecipe(recipe_id)
             rec == NewRecord(recipe_id, api_id, schema_hash, question, recipe, tool_name, now)
             old == IF key \in DOMAIN by_key THEN by_key[key] ELSE <<>>
         IN \E order \in AddOrders(old, recipe_id) :
              \E st \in {SaveLocked(Store, rec, order, max_size)} :
                 /\ records' = st.records
                 /\ by_key' = st.by_key
                 /\ lru' = st.lru
                 /\ next_id' = recipe_id
                 /\ saved' = [i \in DOMAIN st.records |->
                                 IF i = recipe_id
                                 THEN [key |-> key, question |-> question,
                                       recipe |-> View(recipe)]
                                 ELSE saved[i]]
                 /\ touched' = SelectSeq(Append(Remove(touched, recipe_id), recipe_id),
                                         LAMBDA i : i \in DOMAIN st.records)
                 /\ ret' = [op |-> "save_recipe", args |-> <<api_id, schema_hash, question>>,
                            found |-> TRUE, val |-> recipe_id, obj |-> recipe]
    /\ UNCHANGED <<asked, max_size, now, mutated, agent>>

SaveRecipe == Save(Keys, StoreQuestions)

\* a get_recipe that touches the id before it looks the record up
GetTouchesFirst(st, recipe_id, t) ==
    IF recipe_id \notin DOMAIN st.records
    THEN [st EXCEPT !.lru = Touch(st.lru, recipe_id)]
    ELSE [st EXCEPT !.records[recipe_id].last_used_at = t,
                    !.lru = Touch(st.lru, recipe_id)]

\* what get_recipe does to st = [records, by_key, lru] at time t
GetRecipeEffect(st, recipe_id, t) ==
    IF recipe_id \notin DOMAIN st.records THEN st
    ELSE [st EXCEPT !.records[recipe_id].last_used_at = t,
                    !.lru = Touch(st.lru, recipe_id)]

\* what get_recipe_meta does to st = [records, by_key, lru] at time t
GetRecipeMetaEffect(st, recipe_id, t) ==
    IF recipe_id \notin DOMAIN st.records THEN st
    ELSE [st EXCEPT !.records[recipe_id].last_used_at = t,
                    !.lru = Touch(st.lru, recipe_id)]

\* history: the latest-touch order after the stored id was touched
Bump(order, recipe_id) ==
    IF recipe_id \in DOMAIN records THEN Append(Remove(order, recipe_id), recipe_id) ELSE order

\* get_recipe(recipe_id)
GetRecipe ==
    \E recipe_id \in Ids :
       LET found == recipe_id \in DOMAIN records
           copy == ShallowCopy(records[recipe_id].recipe)
       IN \E st \in {GetRecipeEffect(Store, recipe_id, now)} :
          /\ records' = st.records
          /\ by_key' = st.by_key
          /\ lru' = st.lru
          /\ touched' = Bump(touched, recipe_id)
          /\ ret' = IF found
                    THEN [op |-> "get_recipe", args |-> <<recipe_id>>, found |-> TRUE,
                          val |-> View(copy), obj |-> copy]
                    ELSE [op |-> "get_recipe", args |-> <<recipe_id>>, found |-> FALSE]
          /\ UNCHANGED <<asked, max_size, now, next_id, mutated, saved, agent>>

\* get_recipe_meta(recipe_id)
GetRecipeMeta ==
    \E recipe_id \in Ids :
       LET found == recipe_id \in DOMAIN records
           rec == records[recipe_id]
           copy == ShallowCopy(rec.recipe)
       IN \E st \in {GetRecipeMetaEffect(Store, recipe_id, now)} :
          /\ records' = st.records
          /\ by_key' = st.by_key
          /\ lru' = st.lru
          /\ touched' = Bump(touched, recipe_id)
          /\ ret' = IF found
                    THEN [op |-> "get_recipe_meta", args |-> <<recipe_id>>, found |-> TRUE,
                          val |-> [api_id |-> rec.api_id, schema_hash |-> rec.schema_hash,
                                   recipe |-> View(copy)],
                          obj |-> copy]
                    ELSE [op |-> "get_recipe_meta", args |-> <<recipe_id>>, found |-> FALSE]
          /\ UNCHANGED <<asked, max_size, now, next_id, mutated, saved, agent>>

\* a caller changes the dict it holds at the top level: the key now names an object
\* of the caller's own
MutateTop ==
    /\ ret.op \in {"save_recipe", "get_recipe", "get_recipe_meta"}
    /\ "obj" \in DOMAIN ret
    /\ ret.obj.steps # <<>>
    /\ ret' = [ret EXCEPT !.obj = [steps |-> <<>>]]
    /\ UNCHANGED <<asked, max_size, records, by_key, lru, now, next_id, mutated, saved, touched, agent>>

\* a caller changes a nested object (params, steps, sql_steps) of the dict it holds,
\* in place
MutateNested ==
    /\ ret.op \in {"save_recipe", "get_recipe", "get_recipe_meta"}
    /\ "obj" \in DOMAIN ret
    /\ ret.obj.steps # <<>>
    /\ mutated' = mutated \cup {ret.obj.steps[1]}
    /\ UNCHANGED <<asked, max_size, records, by_key, lru, now, next_id, saved, touched, ret, agent>>

(* --------------------------- suggest_recipes --------------------------- *)
\* a bucket that is chosen by api_id alone
BucketOfApi(st, key) ==
    LET ids == {i \in DOMAIN st.records : st.records[i].api_id = key[1]}
        order == CHOOSE p \in Perms(ids) : TRUE
    IN [n \in 1..Len(order) |-> st.records[order[n]]]

\* recs = [self._records[i] for i in ids if i in self._records], ids = list(bucket)
BucketRecords(st, key) ==
    LET ids == IF key \in DOMAIN st.by_key THEN st.by_key[key] ELSE <<>>
        live == SelectSeq(ids, LAMBDA i : i \in DOMAIN st.records)
    IN [n \in 1..Len(live) |-> st.records[live[n]]]

\* the (score, record) pairs with score > 0, in the order of recs
Scored(recs, q_sig) ==
    LET all == [n \in 1..Len(recs) |->
                   [score |-> Score(q_sig, recs[n].question_sig), rec |-> recs[n]]]
    IN SelectSeq(all, LAMBDA x : RatLess(<<0, 1>>, x.score))

\* a sort key of the score alone
KeyLessByScore(x, y) == RatLess(x.score, y.score)

\* the order of the sort key (score, last_used_at)
KeyLess(x, y) ==
    \/ RatLess(x.score, y.score)
    \/ RatEq(x.score, y.score) /\ x.rec.last_used_at < y.rec.last_used_at

\* put x behind every element of a sorted list that is not smaller than x
InsertDesc(sorted, x) ==
    LET n == Cardinality({i \in 1..Len(sorted) : ~KeyLess(sorted[i], x)})
    IN SubSeq(sorted, 1, n) \o <<x>> \o SubSeq(sorted, n + 1, Len(sorted))

\* list.sort(key=..., reverse=True): descending and stable
RECURSIVE SortDesc(_)
SortDesc(seq) ==
    IF seq = <<>> THEN <<>>
    ELSE InsertDesc(SortDesc(SubSeq(seq, 1, Len(seq) - 1)), seq[Len(seq)])

\* scored[: max(0, int(k))]
Take(seq, k) == SubSeq(seq, 1, MinInt(Len(seq), MaxInt(0, k)))

\* one entry of the list suggest_recipes returns
Entry(x) ==
    [recipe_id |-> x.rec.recipe_id,
     score |-> Round4(x.score),
     created_at |-> x.rec.created_at,
     last_used_at |-> x.rec.last_used_at,
     question |-> x.rec.question,
     tool_name |-> x.rec.tool_name]

\* the scored and sorted candidates suggest_recipes cuts its answer from
Ranked(st, api_id, schema_hash, question, k) ==
    Take(SortDesc(Scored(BucketRecords(st, <<api_id, schema_hash>>),
                         NormalizeQuestion(question))), k)

\* suggest_recipes(api_id, schema_hash, question, k) on st = [records, by_key, lru]:
\* val is the list returned, raw the unrounded scores it was sorted by
SuggestOutput(st, api_id, schema_hash, question, k) ==
    LET top == Ranked(st, api_id, schema_hash, question, k)
    IN [val |-> [n \in 1..Len(top) |-> Entry(top[n])],
        raw |-> [n \in 1..Len(top) |-> top[n].score]]

\* a suggest_recipes that marks its best match as used
SuggestTouchesBest(st, api_id, schema_hash, question, k) ==
    LET top == Ranked(st, api_id, schema_hash, question, k)
    IN IF top = <<>> THEN st ELSE GetRecipeEffect(st, top[1].rec.recipe_id, now)

\* what suggest_recipes does to the store: nothing
SuggestEffect(st, api_id, schema_hash, question, k) == st

\* suggest_recipes(api_id, schema_hash, question, k), its key and question drawn from
\* keys and questions
Suggest(keys, questions) ==
    \E key \in keys, question \in questions, k \in Ks :
       LET api_id == key[1]
           schema_hash == key[2]
       IN \E st \in {SuggestEffect(Store, api_id, schema_hash, question, k)},
             out \in {SuggestOutput(Store, api_id, schema_hash, question, k)} :
          /\ records' = st.records
          /\ by_key' = st.by_key
          /\ lru' = st.lru
          /\ ret' = [op |-> "suggest_recipes",
                     args |-> <<api_id, schema_hash, question, k>>,
                     val |-> out.val,
                     raw |-> out.raw]
          /\ UNCHANGED <<asked, max_size, now, next_id, mutated, saved, touched, agent>>

SuggestRecipes == Suggest(Keys, QueryQuestions)

(* ----------------------- recipe execution paths ------------------------ *)
\* the API of the current request, and its raw schema ("" when it could not be loaded)
Requests ==
    {<<"rest:a|b", "s1">>, <<"rest:a|b", "s2">>, <<"graphql:a", "s1">>, <<"graphql:a", "">>}

\* k of search_recipes
DefaultK == 3

ExecOps == {"execute_recipe_tool", "dynamic_recipe_tool"}

\* the (api_id, schema_hash) a record is stored under
StoredKey(st, recipe_id) ==
    <<st.records[recipe_id].api_id, st.records[recipe_id].schema_hash>>

\* an execute_recipe_tool that does not compare the stored key with the request
ExecuteWithoutKeyCheck(st, api_id, raw_schema, recipe_id, missing) ==
    IF raw_schema = "" THEN "schema not loaded"
    ELSE IF recipe_id \notin DOMAIN st.records THEN "recipe not found"
    ELSE IF missing THEN "missing required param"
    ELSE ""

\* execute_recipe_tool up to the first step: the error it returns, "" when it goes on
\* to execute_recipe_steps.  missing: validate_recipe_params finds a required
\* parameter not provided
ExecuteRecipeToolError(st, api_id, raw_schema, recipe_id, missing) ==
    IF raw_schema = "" THEN "schema not loaded"
    ELSE IF recipe_id \notin DOMAIN st.records THEN "recipe not found"
    ELSE IF \/ st.records[recipe_id].schema_hash # Sha256Hex(raw_schema)
            \/ st.records[recipe_id].api_id # api_id
         THEN "recipe does not match current API or schema"
    ELSE IF missing THEN "missing required param"
    ELSE ""

\* validate_and_prepare_recipe: the error it returns, "" when it returns the recipe
ValidateAndPrepareRecipeError(st, recipe_id, raw_schema) ==
    IF raw_schema = "" THEN "schema not loaded"
    ELSE IF recipe_id \notin DOMAIN st.records THEN "recipe not found"
    ELSE ""

\* the call record of an execution that got as far as error (or to its first step):
\* looked_up tells whether it got as far as reading the store, stored whether the id
\* was in the store when the call came, matches whether its record is stored under
\* the key of the request
ExecCall(op, api_id, raw_schema, recipe_id, looked_up, error) ==
    [op |-> op,
     looked_up |-> looked_up,
     stored |-> recipe_id \in DOMAIN records,
     matches |-> /\ recipe_id \in DOMAIN records
                 /\ StoredKey(Store, recipe_id) = <<api_id, Sha256Hex(raw_schema)>>,
     error |-> error,
     pc |-> IF error = "" THEN "api" ELSE "failed",
     invoked |-> <<>>]

\* execute_recipe_tool(ctx, recipe_id, params), up to its first step
ExecuteRecipeTool ==
    \E request \in Requests, recipe_id \in Ids, missing \in BOOLEAN :
       LET api_id == request[1]
           raw_schema == request[2]
           looked_up == raw_schema # ""
           error == ExecuteRecipeToolError(Store, api_id, raw_schema, recipe_id, missing)
       IN \E st \in {IF looked_up THEN GetRecipeMetaEffect(Store, recipe_id, now) ELSE Store} :
          /\ records' = st.records
          /\ by_key' = st.by_key
          /\ lru' = st.lru
          /\ touched' = IF looked_up THEN Bump(touched, recipe_id) ELSE touched
          /\ ret' = ExecCall("execute_recipe_tool", api_id, raw_schema, recipe_id,
                             looked_up, error)
          /\ UNCHANGED <<asked, max_size, now, next_id, mutated, saved, agent>>

\* get_recipe for every id of a list, in order
RECURSIVE GetAll(_, _, _)
GetAll(st, ids, t) ==
    IF ids = <<>> THEN st ELSE GetAll(GetRecipeEffect(st, Head(ids), t), Tail(ids), t)

RECURSIVE BumpAll(_, _)
BumpAll(order, ids) ==
    IF ids = <<>> THEN order ELSE BumpAll(Bump(order, Head(ids)), Tail(ids))

\* process_query / process_rest_query up to the agent run: search_recipes,
\* build_recipe_context and _create_individual_recipe_tools each read every
\* suggested recipe with get_recipe; one tool is bound to each suggested id
ProcessQuery ==
    \E request \in Requests, question \in QueryQuestions :
       LET api_id == request[1]
           raw_schema == request[2]
           suggestions ==
               IF raw_schema = "" THEN <<>>
               ELSE SuggestOutput(Store, api_id, Sha256Hex(raw_schema), question, DefaultK).val
       IN \E ids \in {[n \in 1..Len(suggestions) |-> suggestions[n].recipe_id]} :
          \E st \in {GetAll(Store, ids \o ids \o ids, now)} :
          /\ records' = st.records
          /\ by_key' = st.by_key
          /\ lru' = st.lru
          /\ touched' = BumpAll(touched, ids)
          /\ agent' = [api_id |-> api_id, raw_schema |-> raw_schema, tools |-> Range(ids)]
          /\ ret' = [op |-> "process_query"]
          /\ UNCHANGED <<asked, max_size, now, next_id, mutated, saved>>

\* dynamic_recipe_tool(params) of the tool bound to recipe_id, up to its first step
DynamicRecipeTool ==
    \E recipe_id \in agent.tools, missing \in BOOLEAN :
       LET looked_up == ~missing /\ agent.raw_schema # ""
           error == IF missing THEN "missing required param"
                    ELSE ValidateAndPrepareRecipeError(Store, recipe_id, agent.raw_schema)
       IN \E st \in {IF looked_up THEN GetRecipeEffect(Store, recipe_id, now) ELSE Store} :
          /\ records' = st.records
          /\ by_key' = st.by_key
          /\ lru' = st.lru
          /\ touched' = IF looked_up THEN Bump(touched, recipe_id) ELSE touched
          /\ ret' = ExecCall("dynamic_recipe_tool", agent.api_id, agent.raw_schema,
                             recipe_id, looked_up, error)
          /\ UNCHANGED <<asked, max_size, now, next_id, mutated, saved, agent>>

\* execute_recipe_steps: the step executor is called for the API step
ApiStep ==
    /\ ret.op \in ExecOps
    /\ ret.pc = "api"
    /\ \E success \in BOOLEAN :
         ret' = [ret EXCEPT !.invoked = Append(@, "api"),
                            !.pc = IF success THEN "sql" ELSE "failed",
                            !.error = IF success THEN "" ELSE "step failed"]
    /\ UNCHANGED <<asked, max_size, records, by_key, lru, now, next_id, mutated, saved, touched, agent>>

\* _execute_sql_steps: the SQL step is rendered and executed
SqlStep ==
    /\ ret.op \in ExecOps
    /\ ret.pc = "sql"
    /\ \E success \in BOOLEAN :
         ret' = [ret EXCEPT !.invoked = Append(@, "sql"),
                            !.pc = IF success THEN "done" ELSE "failed",
                            !.error = IF success THEN "" ELSE "sql failed"]
    /\ UNCHANGED <<asked, max_size, records, by_key, lru, now, next_id, mutated, saved, touched, agent>>

(* ------------------------ questions under test ------------------------- *)
\* the strings with the lowercase alphanumeric tokens of q
SameTokens(q) == {r \in StringsUpTo(MaxLen) : Tokens(r) = Tokens(q)}

\* _similarity applied to the questions drawn: a query q1, a second question q2 with
\* the tokens of q1, and a stored question s
SimilarityCall ==
    /\ Len(asked) = 3
    /\ ret.op = "init"
    /\ ret' = [op |-> "_similarity",
               val |-> [q1s |-> Similarity(asked[1], asked[3]),
                        q2s |-> Similarity(asked[2], asked[3]),
                        q1q2 |-> Similarity(asked[1], asked[2])]]
    /\ UNCHANGED <<asked, max_size, records, by_key, lru, now, next_id, mutated, saved,
                   touched, agent>>

\* the bucket and the other questions a drawn question is saved and queried with
AskKeys == {<<"rest:a|b", Sha256Hex("s1")>>}

AskPartners == {<<"-">>}

\* save_recipe with the question drawn, or one of its partners
SaveAsked ==
    /\ Len(asked) = 1
    /\ Save(AskKeys, {asked[1]} \cup AskPartners)

\* suggest_recipes with the question drawn, or one of its partners
SuggestAsked ==
    /\ Len(asked) = 1
    /\ Suggest(AskKeys, {asked[1]} \cup AskPartners)

(* ----------------------- values and templates -------------------------- *)
\* Python values, by type: an int or a str with its text, None, a dict with its
\* items, a list with its items
PyInt(text) == [t |-> "int", v |-> text]

PyStr(text) == [t |-> "str", v |-> text]

PyNone == [t |-> "none", v |-> <<>>]

PyDict(items) == [t |-> "dict", v |-> items]

PyList(items) == [t |-> "list", v |-> items]

\* a call that returned val, and a call that raised KeyError
Returned(val) == [raised |-> FALSE, val |-> val]

KeyError == [raised |-> TRUE, error |-> "missing param"]

\* normalize_ws(text) = re.sub(r"\s+", " ", (text or "")).strip()
NormalizeWs(text) == Strip(CollapseWs(text))

\* the classes [a-zA-Z_] and [a-zA-Z0-9_] of _PLACEHOLDER_RE, on the characters used
IsNameStart(c) == c \in {"p", "q", "u", "x", "s", "_"}

IsNameChar(c) == IsNameStart(c) \/ c \in {"0", "1", "2"}

\* the longest prefix of s made of name characters
RECURSIVE NamePrefix(_)
NamePrefix(s) ==
    IF s # <<>> /\ IsNameChar(Head(s)) THEN <<Head(s)>> \o NamePrefix(Tail(s)) ELSE <<>>

\* the name of the placeholder {{name}} that s starts with, <<>> when _PLACEHOLDER_RE
\* does not match at the start of s
PlaceholderAt(s) ==
    IF Len(s) >= 5 /\ s[1] = "{" /\ s[2] = "{" /\ IsNameStart(s[3])
    THEN LET name == NamePrefix(SubSeq(s, 3, Len(s)))
         IN IF /\ Len(s) >= Len(name) + 4
               /\ s[Len(name) + 3] = "}"
               /\ s[Len(name) + 4] = "}"
            THEN name
            ELSE <<>>
    ELSE <<>>

\* _PLACEHOLDER_RE.findall(s): the names of the placeholders of s, left to right
RECURSIVE FindAllPlaceholders(_)
FindAllPlaceholders(s) ==
    IF s = <<>> THEN <<>>
    ELSE IF PlaceholderAt(s) # <<>>
         THEN <<PlaceholderAt(s)>>
              \o FindAllPlaceholders(SubSeq(s, Len(PlaceholderAt(s)) + 5, Len(s)))
         ELSE FindAllPlaceholders(Tail(s))

\* _as_text(v): "null" for None, str(v) otherwise
AsText(v) == IF v.t = "none" THEN <<"n", "u", "l", "l">> ELSE v.v

\* _PLACEHOLDER_RE.sub(repl, s) when every placeholder of s names a key of params
RECURSIVE Substitute(_, _)
Substitute(s, params) ==
    IF s = <<>> THEN <<>>
    ELSE IF PlaceholderAt(s) # <<>>
         THEN AsText(params[PlaceholderAt(s)])
              \o Substitute(SubSeq(s, Len(PlaceholderAt(s)) + 5, Len(s)), params)
         ELSE <<Head(s)>> \o Substitute(Tail(s), params)

\* a render_text_template that renders a missing parameter as null
RenderMissingAsNull(template, params) ==
    Returned(Substitute(template,
                        [n \in DOMAIN params \cup Range(FindAllPlaceholders(template)) |->
                            IF n \in DOMAIN params THEN params[n] ELSE PyNone]))

\* render_text_template(template, params): repl raises KeyError at the first
\* placeholder whose name is not in params
RenderTextTemplate(template, params) ==
    IF \E n \in Range(FindAllPlaceholders(template)) : n \notin DOMAIN params
    THEN KeyError
    ELSE Returned(Substitute(template, params))

\* a dict of the one key "$param" with a str value
IsParamRef(obj) ==
    /\ obj.t = "dict"
    /\ DOMAIN obj.v = {"$param"}
    /\ obj.v["$param"].t = "str"

\* render_param_refs(obj, params)
RECURSIVE RenderParamRefs(_, _)
RenderParamRefs(obj, params) ==
    IF obj.t = "dict"
    THEN IF IsParamRef(obj)
         THEN IF obj.v["$param"].v \notin DOMAIN params THEN KeyError
              ELSE Returned(params[obj.v["$param"].v])
         ELSE IF \E k \in DOMAIN obj.v : RenderParamRefs(obj.v[k], params).raised
              THEN KeyError
              ELSE Returned(PyDict([k \in DOMAIN obj.v |->
                                       RenderParamRefs(obj.v[k], params).val]))
    ELSE IF obj.t = "list"
    THEN IF \E i \in DOMAIN obj.v : RenderParamRefs(obj.v[i], params).raised
         THEN KeyError
         ELSE Returned(PyList([i \in DOMAIN obj.v |-> RenderParamRefs(obj.v[i], params).val]))
    ELSE Returned(obj)

\* isinstance(spec, dict): a declaration that is no dict is a tagged Python value,
\* such as the str "int"
IsSpecDict(spec) == DOMAIN spec # {"t", "v"}

\* the parameters of spec whose declaration is a dict with a default
WithDefault(params_spec) ==
    {n \in DOMAIN params_spec :
        IsSpecDict(params_spec[n]) /\ "default" \in DOMAIN params_spec[n]}

\* params_with_defaults(params_spec, provided)
ParamsWithDefaults(params_spec, provided) ==
    [n \in WithDefault(params_spec) \cup DOMAIN provided |->
        IF n \in DOMAIN provided THEN provided[n] ELSE params_spec[n].default]

(* --------------------------- extract_recipe ---------------------------- *)
\* dict.get(key, default)
Get(d, key, default) == IF key \in DOMAIN d THEN d[key] ELSE default

\* str.upper() on the characters used
UpperChar(c) == CASE c = "g" -> "G" [] c = "e" -> "E" [] c = "t" -> "T" [] OTHER -> c

UpperStr(s) == [i \in 1..Len(s) |-> UpperChar(s[i])]

\* _canon_obj(v): None counts as the empty dict
CanonObj(v) == IF v.t = "none" THEN PyDict(<<>>) ELSE v

\* _get_params_defaults(params_spec)
GetParamsDefaults(params_spec) == ParamsWithDefaults(params_spec, <<>>)

\* _find_param_refs(obj, found): the names it adds to found
RECURSIVE FindParamRefs(_)
FindParamRefs(obj) ==
    IF obj.t = "dict"
    THEN IF IsParamRef(obj) THEN {obj.v["$param"].v}
         ELSE UNION {FindParamRefs(obj.v[k]) : k \in DOMAIN obj.v}
    ELSE IF obj.t = "list"
    THEN UNION {FindParamRefs(obj.v[i]) : i \in DOMAIN obj.v}
    ELSE {}

RestObjectKeys == <<"path_params", "query_params", "body">>

\* the names one step adds to used in _find_used_params
StepUsedParams(step, api_type) ==
    IF api_type = "graphql"
    THEN Range(FindAllPlaceholders(Get(step, "query_template", <<>>)))
    ELSE UNION {FindParamRefs(Get(step, RestObjectKeys[i], PyNone)) : i \in DOMAIN RestObjectKeys}

\* _find_used_params(recipe, api_type)
FindUsedParams(recipe, api_type) ==
    LET sql_steps == Get(recipe, "sql_steps", <<>>)
        steps == Get(recipe, "steps", <<>>)
    IN UNION {Range(FindAllPlaceholders(sql_steps[i])) : i \in DOMAIN sql_steps}
       \cup UNION {StepUsedParams(steps[i], api_type) : i \in DOMAIN steps}

\* the first outcome of a sequence of checks that is not a pass: checks run in order,
\* and the first one that fails or raises ends the validation
RECURSIVE FirstFailure(_)
FirstFailure(outcomes) ==
    IF outcomes = <<>> THEN Returned(TRUE)
    ELSE IF Head(outcomes) # Returned(TRUE) THEN Head(outcomes)
    ELSE FirstFailure(Tail(outcomes))

\* normalize_ws(render_text_template(tmpl, params)) == normalize_ws(text)
RendersTo(tmpl, params, text) ==
    IF RenderTextTemplate(tmpl, params).raised THEN KeyError
    ELSE Returned(NormalizeWs(RenderTextTemplate(tmpl, params).val) = NormalizeWs(text))

\* _validate_step_graphql(orig, recipe_step, params)
ValidateStepGraphql(orig, recipe_step, params) ==
    IF Get(recipe_step, "name", PyNone) # Get(orig, "name", PyNone) THEN Returned(FALSE)
    ELSE IF "query_template" \notin DOMAIN recipe_step THEN Returned(FALSE)
    ELSE RendersTo(recipe_step.query_template, params, Get(orig, "query", <<>>))

\* render_param_refs(_canon_obj(recipe_step.get(key)), params) == _canon_obj(orig.get(key))
ObjectRendersTo(recipe_step, orig, key, params) ==
    IF RenderParamRefs(CanonObj(Get(recipe_step, key, PyNone)), params).raised THEN KeyError
    ELSE Returned(RenderParamRefs(CanonObj(Get(recipe_step, key, PyNone)), params).val
                    = CanonObj(Get(orig, key, PyNone)))

\* _validate_step_rest(orig, recipe_step, params)
ValidateStepRest(orig, recipe_step, params) ==
    IF Get(recipe_step, "name", PyNone) # Get(orig, "name", PyNone) THEN Returned(FALSE)
    ELSE IF UpperStr(Get(recipe_step, "method", <<>>)) # UpperStr(Get(orig, "method", <<>>))
    THEN Returned(FALSE)
    ELSE IF Get(recipe_step, "path", PyNone) # Get(orig, "path", PyNone) THEN Returned(FALSE)
    ELSE FirstFailure([i \in DOMAIN RestObjectKeys |->
                          ObjectRendersTo(recipe_step, orig, RestObjectKeys[i], params)])

\* a turn of the loop that does not compare the kinds
ValidateStepAnyKind(api_type, orig, rec, params) ==
    IF api_type = "graphql" THEN ValidateStepGraphql(orig, rec, params)
    ELSE ValidateStepRest(orig, rec, params)

\* one turn of the loop over zip(original_steps, r_steps)
ValidateStep(api_type, orig, rec, params) ==
    IF Get(rec, "kind", PyNone) # Get(orig, "kind", PyNone) THEN Returned(FALSE)
    ELSE IF api_type = "graphql" THEN ValidateStepGraphql(orig, rec, params)
    ELSE ValidateStepRest(orig, rec, params)

\* a _validate_equivalence that does not look at the SQL templates
ValidateStepsOnly(api_type, original_steps, original_sql, recipe) ==
    LET params == GetParamsDefaults(Get(recipe, "params", <<>>))
    IN IF Len(recipe.steps) # Len(original_steps) THEN Returned(FALSE)
       ELSE FirstFailure([i \in DOMAIN original_steps |->
                             ValidateStep(api_type, original_steps[i], recipe.steps[i], params)])

\* _validate_equivalence(api_type, original_steps, original_sql, recipe): True, False,
\* or the KeyError of a template that names a parameter without a default
ValidateEquivalence(api_type, original_steps, original_sql, recipe) ==
    LET params == GetParamsDefaults(Get(recipe, "params", <<>>))
        r_steps == recipe.steps
        r_sql == recipe.sql_steps
    IN IF Len(r_steps) # Len(original_steps) \/ Len(r_sql) # Len(original_sql)
       THEN Returned(FALSE)
       ELSE FirstFailure(
                [i \in DOMAIN original_steps |->
                    ValidateStep(api_type, original_steps[i], r_steps[i], params)]
                \o [i \in DOMAIN original_sql |->
                       RendersTo(r_sql[i], params, original_sql[i])])

(* --------------------- traces and candidate recipes -------------------- *)
\* the longest tool_name the extractor accepts
MaxToolNameLen == 40

\* re.match(r"^[a-z][a-z0-9_]{0,39}$", tool_name), on the characters used
IsToolName(name) ==
    /\ Len(name) \in 1..MaxToolNameLen
    /\ name[1] \in {"g", "e", "t"}
    /\ \A i \in 2..Len(name) : name[i] \in {"g", "e", "t", "0", "1", "_"}

\* the texts an agent run executed: a GraphQL query and a SQL statement
QueryText == <<"x", " ", "1">>

SqlText == <<"s", " ", "1">>

\* templates for the two: with a placeholder (and other whitespace), and without
QueryTemplates == {<<"x", " ", " ", "{", "{", "p", "}", "}">>, QueryText}

SqlTemplates == {<<"s", " ", "{", "{", "p", "}", "}">>, SqlText,
                 <<"s", " ", "{", "{", "u", "}", "}">>}

\* the declarations a candidate gives for the parameters p and u
ParamChoices ==
    {[type |-> "int"], [type |-> "int", default |-> PyInt(<<"1">>)],
     [type |-> "int", default |-> PyInt(<<"2">>)]}

ParamSpecs ==
    {ps \in UNION {[D -> ParamChoices] : D \in SUBSET {<<"p">>, <<"u">>}} :
        <<"u">> \in DOMAIN ps => ps[<<"u">>] = [type |-> "int", default |-> PyInt(<<"1">>)]}

\* {"$param": name}
ParamRef(name) == PyDict([k \in {"$param"} |-> PyStr(name)])

\* the step an agent run records for a call (graphql_agent.py, rest_agent.py)
OriginalStep(api_type) ==
    IF api_type = "graphql"
    THEN [kind |-> "graphql", query |-> QueryText, name |-> "data"]
    ELSE [kind |-> "rest", name |-> "data", method |-> <<"G", "E", "T">>, path |-> "/users",
          path_params |-> PyNone,
          query_params |-> PyDict([k \in {"limit"} |-> PyInt(<<"1">>)]),
          body |-> PyNone]

\* the steps a candidate may hold for that call: parameterized, literal, and of the
\* other kind
CandidateSteps(api_type) ==
    IF api_type = "graphql"
    THEN {[kind |-> kind, name |-> "data", query_template |-> tmpl] :
             kind \in {"graphql"}, tmpl \in QueryTemplates}
         \cup {[kind |-> "rest", name |-> "data", query_template |-> QueryText]}
    ELSE {[kind |-> "rest", name |-> "data", method |-> <<"g", "e", "t">>, path |-> "/users",
           path_params |-> PyDict(<<>>),
           query_params |-> PyDict([k \in {"limit"} |-> ParamRef(<<"p">>)])],
          [kind |-> "rest", name |-> "data", method |-> <<"G", "E", "T">>, path |-> "/users",
           query_params |-> PyDict([k \in {"limit"} |-> PyInt(<<"1">>)]),
           body |-> PyNone],
          [kind |-> "graphql", name |-> "data", method |-> <<"G", "E", "T">>, path |-> "/users",
           query_params |-> PyDict([k \in {"limit"} |-> PyInt(<<"1">>)])]}

\* all lists of 1 to n elements of S
ListsUpTo(S, n) == UNION {[1..k -> S] : k \in 1..n}

\* the ways the extractor's answer can fall short of a well-formed recipe
Shapes == {"ok", "no_steps", "no_sql_steps", "no_params", "no_tool_name",
           "tool_name_upper", "tool_name_long"}

\* the dict _parse_json_maybe returns for an answer of the given shape
Candidate(shape, params, steps, sql_steps) ==
    LET full == [tool_name |-> CASE shape = "tool_name_upper" -> <<"G", "e", "t">>
                                 [] shape = "tool_name_long" ->
                                       [i \in 1..(MaxToolNameLen + 1) |-> "g"]
                                 [] OTHER -> <<"g", "e", "t">>,
                 params |-> params, steps |-> steps, sql_steps |-> sql_steps]
        dropped == CASE shape = "no_steps" -> {"steps"}
                     [] shape = "no_sql_steps" -> {"sql_steps"}
                     [] shape = "no_params" -> {"params"}
                     [] shape = "no_tool_name" -> {"tool_name"}
                     [] OTHER -> {}
    IN [k \in DOMAIN full \ dropped |-> full[k]]

\* the traces of agent runs, each with an answer of the extractor; output <<>> is an
\* answer that holds no JSON object
Traces ==
    UNION {
        {[api_type |-> api_type, steps |-> <<OriginalStep(api_type)>>,
          sql_steps |-> <<>>, output |-> <<>>]}
        \cup
        {[api_type |-> api_type, steps |-> [i \in 1..n |-> OriginalStep(api_type)],
          sql_steps |-> sql,
          output |-> Candidate("ok", params, steps, sql_steps)] :
            n \in 1..MaxSteps, sql \in {<<>>, <<SqlText>>}, params \in ParamSpecs,
            steps \in ListsUpTo(CandidateSteps(api_type), MaxSteps),
            sql_steps \in {<<>>} \cup ListsUpTo(SqlTemplates, 1)}
        \cup {[api_type |-> api_type, steps |-> <<OriginalStep(api_type)>>,
               sql_steps |-> <<SqlText>>,
               output |-> Candidate(shape, params, steps, <<SqlText>>)] :
                 shape \in Shapes \ {"ok"}, params \in ParamSpecs,
                 steps \in ListsUpTo(CandidateSteps(api_type), 1)}
        : api_type \in {"graphql", "rest"}}

(* ------------------ maybe_extract_and_save_recipe ---------------------- *)
\* the call of extract_recipe in flight: the check it stands before (pc), the
\* candidate as the checks so far left it, and the checks made so far
Stage(pc, recipe, done) == [op |-> "extract_recipe", pc |-> pc, recipe |-> recipe, done |-> done]

\* the key and the question of the agent run whose trace is extracted
ExtractKey(api_type) ==
    IF api_type = "graphql" THEN <<"graphql:a", Sha256Hex("s1")>>
    ELSE <<"rest:a|b", Sha256Hex("s1")>>

ExtractQuestion == <<"a">>

\* save_recipe calls of other requests, made before the extractor answers
EarlierSave ==
    /\ ret.op \in {"init", "save_recipe"}
    /\ Save(AskKeys, {ExtractQuestion})

\* Runner.run returns the extractor's answer and _parse_json_maybe reads it
ExtractorReturns ==
    /\ ret.op \in {"init", "save_recipe"}
    /\ next_id < MaxIds
    /\ ret' = IF asked.output = <<>> THEN Stage("rejected", <<>>, <<"parse">>)
              ELSE Stage("structure", asked.output, <<"parse">>)
    /\ UNCHANGED <<asked, max_size, records, by_key, lru, now, next_id, mutated, saved, touched, agent>>

\* the basic structure check: steps and sql_steps are there; params that is not a
\* dict becomes {}
CheckStructure ==
    /\ ret.op = "extract_recipe"
    /\ ret.pc = "structure"
    /\ ret' = IF "steps" \notin DOMAIN ret.recipe \/ "sql_steps" \notin DOMAIN ret.recipe
              THEN Stage("rejected", ret.recipe, Append(ret.done, "structure"))
              ELSE Stage("tool_name",
                         [k \in DOMAIN ret.recipe \cup {"params"} |->
                             IF k = "params" THEN Get(ret.recipe, "params", <<>>)
                             ELSE ret.recipe[k]],
                         Append(ret.done, "structure"))
    /\ UNCHANGED <<asked, max_size, records, by_key, lru, now, next_id, mutated, saved, touched, agent>>

\* the tool_name check
CheckToolName ==
    /\ ret.op = "extract_recipe"
    /\ ret.pc = "tool_name"
    /\ ret' = IF IsToolName(Get(ret.recipe, "tool_name", <<>>))
              THEN Stage("param_usage", ret.recipe, Append(ret.done, "tool_name"))
              ELSE Stage("rejected", ret.recipe, Append(ret.done, "tool_name"))
    /\ UNCHANGED <<asked, max_size, records, by_key, lru, now, next_id, mutated, saved, touched, agent>>

\* a usage check that lets a template name a parameter that is not declared
UsageAllowsUndeclared(recipe, api_type) ==
    LET declared == DOMAIN recipe.params
        used == FindUsedParams(recipe, api_type)
    IN IF declared # {} /\ used = {} THEN [rejected |-> TRUE, recipe |-> recipe]
       ELSE [rejected |-> FALSE,
             recipe |-> [recipe EXCEPT !.params = [n \in declared \cap used |-> recipe.params[n]]]]

\* a usage check that never rejects a candidate for its declared parameters
UsageNeverRejectsUnused(recipe, api_type) ==
    LET declared == DOMAIN recipe.params
        used == FindUsedParams(recipe, api_type)
    IN IF used \ declared # {} THEN [rejected |-> TRUE, recipe |-> recipe]
       ELSE [rejected |-> FALSE,
             recipe |-> [recipe EXCEPT !.params = [n \in declared \cap used |-> recipe.params[n]]]]

\* a usage check that rejects every candidate with a parameter no template names
UsageRejectsAnyUnused(recipe, api_type) ==
    LET declared == DOMAIN recipe.params
        used == FindUsedParams(recipe, api_type)
    IN IF declared # used THEN [rejected |-> TRUE, recipe |-> recipe]
       ELSE [rejected |-> FALSE, recipe |-> recipe]

\* the check that the declared parameters are used: whether it rejects the
\* candidate, and the candidate it leaves
CheckParamUsageResult(recipe, api_type) ==
    LET declared == DOMAIN recipe.params
        used == FindUsedParams(recipe, api_type)
    IN IF declared # {} /\ used = {} THEN [rejected |-> TRUE, recipe |-> recipe]
       ELSE IF declared # used
       THEN IF used \ declared # {} THEN [rejected |-> TRUE, recipe |-> recipe]
            ELSE [rejected |-> FALSE,
                  recipe |-> [recipe EXCEPT
                                 !.params = [n \in {k \in declared : k \in used} |->
                                                recipe.params[n]]]]
       ELSE [rejected |-> FALSE, recipe |-> recipe]

CheckParamUsage ==
    /\ ret.op = "extract_recipe"
    /\ ret.pc = "param_usage"
    /\ \E usage \in {CheckParamUsageResult(ret.recipe, asked.api_type)} :
          ret' = Stage(IF usage.rejected THEN "rejected" ELSE "equivalence",
                       usage.recipe, Append(ret.done, "param_usage"))
    /\ UNCHANGED <<asked, max_size, records, by_key, lru, now, next_id, mutated, saved, touched, agent>>

\* a core validation whose KeyError is swallowed and the candidate kept
CheckEquivalenceKeepsRaised ==
    /\ ret.op = "extract_recipe"
    /\ ret.pc = "equivalence"
    /\ \E valid \in {ValidateEquivalence(asked.api_type, asked.steps, asked.sql_steps,
                                        ret.recipe)} :
          ret' = Stage(IF valid.raised THEN "save"
                       ELSE IF valid.val THEN "save" ELSE "rejected",
                       ret.recipe, Append(ret.done, "equivalence"))
    /\ UNCHANGED <<asked, max_size, records, by_key, lru, now, next_id, mutated, saved, touched, agent>>

\* the core validation; a KeyError leaves extract_recipe and is caught by
\* maybe_extract_and_save_recipe
CheckEquivalence ==
    /\ ret.op = "extract_recipe"
    /\ ret.pc = "equivalence"
    /\ \E valid \in {ValidateEquivalence(asked.api_type, asked.steps, asked.sql_steps,
                                        ret.recipe)} :
          ret' = Stage(IF valid.raised THEN "raised"
                       ELSE IF valid.val THEN "save" ELSE "rejected",
                       ret.recipe, Append(ret.done, "equivalence"))
    /\ UNCHANGED <<asked, max_size, records, by_key, lru, now, next_id, mutated, saved, touched, agent>>

\* extract_recipe returned a recipe: maybe_extract_and_save_recipe saves it
SaveExtracted ==
    /\ ret.op = "extract_recipe"
    /\ ret.pc = "save"
    /\ LET key == ExtractKey(asked.api_type)
           recipe_id == next_id + 1
           rec == NewRecord(recipe_id, key[1], key[2], ExtractQuestion, ret.recipe,
                            Get(ret.recipe, "tool_name", <<>>), now)
           old == IF key \in DOMAIN by_key THEN by_key[key] ELSE <<>>
       IN \E order \in AddOrders(old, recipe_id) :
          \E st \in {SaveLocked(Store, rec, order, max_size)} :
             /\ records' = st.records
             /\ by_key' = st.by_key
             /\ lru' = st.lru
             /\ next_id' = recipe_id
             /\ saved' = [i \in DOMAIN st.records |->
                             IF i = recipe_id
                             THEN [key |-> key, question |-> ExtractQuestion,
                                   recipe |-> ret.recipe]
                             ELSE saved[i]]
             /\ touched' = SelectSeq(Append(Remove(touched, recipe_id), recipe_id),
                                     LAMBDA i : i \in DOMAIN st.records)
             /\ ret' = Stage("saved", ret.recipe, Append(ret.done, "save"))
    /\ UNCHANGED <<asked, max_size, now, mutated, agent>>

(* ------------------------- renderer inputs ----------------------------- *)
\* {{name}}
Placeholder(name) == <<"{", "{">> \o name \o <<"}", "}">>

\* pieces of template text: plain text, the placeholders of p and q, and texts that
\* _PLACEHOLDER_RE does not match
Pieces ==
    {<<"s", " ">>, Placeholder(<<"p">>), Placeholder(<<"q">>),
     <<"{", "p", "}">>, Placeholder(<<"1">>), Placeholder(<<" ", "p">>)}

\* "".join(pieces)
RECURSIVE Join(_)
Join(pieces) == IF pieces = <<>> THEN <<>> ELSE Head(pieces) \o Join(Tail(pieces))

\* the leaves of an object under test: plain values, the references to p and q, and
\* dicts with a "$param" key that are not references
Leaves ==
    {PyInt(<<"1">>), PyNone, ParamRef(<<"p">>), ParamRef(<<"q">>),
     PyDict([k \in {"$param"} |-> PyInt(<<"1">>)]),
     PyDict([k \in {"$param", "x"} |-> PyStr(<<"p">>)])}

\* an object that holds the leaves in a dict, in a list and in a nested dict
ObjectOf(leaves) ==
    PyDict([k \in {"a", "b"} |->
               IF k = "a" THEN leaves[1]
               ELSE PyList(<<leaves[2], PyDict([c \in {"c"} |-> leaves[3]])>>)])

\* the params a renderer is called with: any of p and q, with an int, None or a text
\* that reads like a placeholder
RenderParams ==
    UNION {[D -> {PyInt(<<"1">>), PyNone, PyStr(Placeholder(<<"q">>))}] :
              D \in SUBSET {<<"p">>, <<"q">>}}

\* render_text_template(asked.template, asked.params)
RenderText ==
    /\ ret.op = "init"
    /\ asked.kind = "text"
    /\ ret' = [op |-> "render_text_template",
               out |-> RenderTextTemplate(asked.template, asked.params)]
    /\ UNCHANGED <<asked, max_size, records, by_key, lru, now, next_id, mutated, saved, touched, agent>>

\* render_param_refs(asked.obj, asked.params)
RenderRefs ==
    /\ ret.op = "init"
    /\ asked.kind = "obj"
    /\ ret' = [op |-> "render_param_refs", out |-> RenderParamRefs(asked.obj, asked.params)]
    /\ UNCHANGED <<asked, max_size, records, by_key, lru, now, next_id, mutated, saved, touched, agent>>

(* ------------- validate_recipe_params, execute_recipe_steps ------------- *)
\* the names of a params spec in the order validate_recipe_params goes through them
ParamOrder == <<<<"p">>, <<"q">>>>

\* isinstance(spec, dict) and spec.get("default") is None and pname not in provided
MissingRequired(params_spec, provided) ==
    SelectSeq(ParamOrder,
              LAMBDA pname : /\ pname \in DOMAIN params_spec
                             /\ IsSpecDict(params_spec[pname])
                             /\ Get(params_spec[pname], "default", PyNone) = PyNone
                             /\ pname \notin DOMAIN provided)

\* validate_recipe_params(params_spec, provided): (params, error)
ValidateRecipeParams(params_spec, provided) ==
    IF MissingRequired(params_spec, provided) # <<>>
    THEN [params |-> PyNone,
          error |-> <<"missing required param", Head(MissingRequired(params_spec, provided))>>]
    ELSE [params |-> PyDict(ParamsWithDefaults(params_spec, provided)), error |-> <<>>]

\* the declarations a stored recipe gives for p and q: p without a default, with a
\* default or with a default of null, q without a default
RunParamSpecs ==
    {ps \in UNION {[D -> {[type |-> "int"], [type |-> "int", default |-> PyInt(<<"1">>)],
                          [type |-> "int", default |-> PyNone]}] :
                      D \in SUBSET {<<"p">>, <<"q">>}} :
        <<"q">> \in DOMAIN ps => ps[<<"q">>] = [type |-> "int"]}

\* the parameters a call provides: any of p, q and the undeclared x
RunProvided == UNION {[D -> {PyInt(<<"2">>)}] : D \in SUBSET {<<"p">>, <<"q">>, <<"x">>}}

\* the steps a stored recipe may hold for a call: with a reference to p, and literal
RunSteps(api_type) == {step \in CandidateSteps(api_type) : step.kind = api_type}

\* the SQL templates a stored recipe may hold: with a reference to p, and literal
RunSqlTemplates == {tmpl \in SqlTemplates : <<"u">> \notin Range(FindAllPlaceholders(tmpl))}

\* the stored recipes that are run, each with the parameters of a call
Runs ==
    UNION {
        {[api_type |-> api_type,
          recipe |-> [params |-> params, steps |-> steps, sql_steps |-> sql_steps],
          provided |-> provided] :
            params \in RunParamSpecs, provided \in RunProvided,
            steps \in {<<>>} \cup ListsUpTo(RunSteps(api_type), MaxSteps),
            sql_steps \in {<<>>} \cup ListsUpTo(RunSqlTemplates, MaxSteps)}
        : api_type \in {"graphql", "rest"}}

\* the call of a recipe in flight: where it stands, the validated params, the
\* executor and SQL calls made so far with what the executor returned, the tables
\* in the shared results, the call
\* records in the executed-items list, the value in the last-result slot, what
\* execute_recipe_steps returns, and what the tool answers
Run(pc, params, invoked, success, executed_sql, error) ==
    [op |-> "execute_recipe", pc |-> pc, params |-> params, invoked |-> invoked,
     success |-> success, executed_sql |-> executed_sql, error |-> error,
     results |-> {}, executed_items |-> <<>>, last_result |-> <<>>, last_data |-> <<>>,
     outcomes |-> <<>>,
     response |-> IF error = <<>> THEN <<>> ELSE [error |-> error]]

\* what execute_recipe_tool answers once execute_recipe_steps has returned: the
\* error alone, the CSV of last_data, or format_recipe_response
ToolResponse(run, return_directly) ==
    IF ~run.success THEN [error |-> run.error]
    ELSE IF return_directly THEN [result |-> run.last_data]
    ELSE [result |-> run.last_result, executed |-> run.executed_items,
          executed_sql |-> run.executed_sql]

\* the caller validates the parameters and returns the error, or goes on to
\* execute_recipe_steps
ValidateParams ==
    /\ ret.op = "init"
    /\ \E v \in {ValidateRecipeParams(asked.recipe.params, asked.provided)} :
          ret' = Run(IF v.error # <<>> THEN "declined"
                     ELSE IF asked.recipe.steps # <<>> THEN "api" ELSE "sql",
                     v.params, <<>>, v.error = <<>>, <<>>, v.error)
    /\ UNCHANGED <<asked, max_size, records, by_key, lru, now, next_id, mutated, saved, touched, agent>>

\* what the step executor renders of a step before it sends the request: the query
\* of a GraphQL step, the path_params, query_params and body of a REST step
RenderStep(api_type, step, params) ==
    IF api_type = "graphql" THEN RenderTextTemplate(step.query_template, params)
    ELSE FirstFailure([i \in DOMAIN RestObjectKeys |->
                          IF RenderParamRefs(CanonObj(Get(step, RestObjectKeys[i], PyNone)),
                                             params).raised
                          THEN KeyError ELSE Returned(TRUE)])

\* what a step executor returns for a request it has sent: failure, or success with
\* or without data for the step's table and with or without a call record
ExecutorOutcomes ==
    {[success |-> FALSE, data |-> FALSE, call_rec |-> FALSE]}
    \cup {[success |-> TRUE, data |-> d, call_rec |-> c] : d \in BOOLEAN, c \in BOOLEAN}

\* an execute_recipe_steps that goes on to the SQL steps after a failed API step
RunApiStepGoesOn ==
    /\ ret.op = "execute_recipe"
    /\ ret.pc = "api"
    /\ \E success \in BOOLEAN :
         LET step_idx == Len(ret.invoked) + 1
         IN ret' = [ret EXCEPT
                       !.invoked = Append(@, <<"api", step_idx>>),
                       !.pc = IF success /\ step_idx < Len(asked.recipe.steps) THEN "api"
                              ELSE "sql",
                       !.success = success,
                       !.error = IF success THEN <<>> ELSE <<"api step failed", step_idx>>]
    /\ UNCHANGED <<asked, max_size, records, by_key, lru, now, next_id, mutated, saved, touched, agent>>

\* an execute_recipe_steps that calls every API step before it looks at the outcomes
RunApiStepsAll ==
    /\ ret.op = "execute_recipe"
    /\ ret.pc = "api"
    /\ \E success \in BOOLEAN :
         ret' = [ret EXCEPT
                    !.invoked = [i \in 1..Len(asked.recipe.steps) |-> <<"api", i>>],
                    !.pc = IF success THEN "sql" ELSE "returned",
                    !.success = success,
                    !.error = IF success THEN <<>> ELSE <<"api step failed", 1>>,
                    !.response = IF success THEN <<>>
                                 ELSE [error |-> <<"api step failed", 1>>]]
    /\ UNCHANGED <<asked, max_size, records, by_key, lru, now, next_id, mutated, saved, touched, agent>>

\* the return of execute_recipe_steps after a failure, with the tool's answer
Failed(run, executed_sql, error) ==
    LET returned == [run EXCEPT !.pc = "returned", !.success = FALSE,
                                !.executed_sql = executed_sql, !.error = error,
                                !.last_data = <<>>]
    IN [returned EXCEPT !.response = ToolResponse(returned, FALSE)]

\* one turn of the loop over the API steps: the executor is called for the next
\* step.  The GraphQL executor lets the KeyError of its template leave the call, the
\* REST executor reports it as a failure; a failure is returned with
\* executed_sql = []; a success merges the step's table into the results, and its
\* call record and its data, when there are any, go to the executed-items list and
\* to the last-result slot
RunApiStep ==
    /\ ret.op = "execute_recipe"
    /\ ret.pc = "api"
    /\ \E step_idx \in {Len(ret.invoked) + 1} :
       \E called \in {[ret EXCEPT !.invoked = Append(@, <<"api", step_idx>>)]} :
       \E rendered \in {RenderStep(asked.api_type, asked.recipe.steps[step_idx],
                                   ret.params.v)} :
          IF rendered.raised /\ asked.api_type = "graphql"
          THEN ret' = [called EXCEPT !.pc = "raised", !.success = FALSE,
                                     !.error = <<rendered.error, step_idx>>]
          ELSE IF rendered.raised
          THEN ret' = Failed(called, <<>>, <<"api step failed", step_idx>>)
          ELSE \E out \in ExecutorOutcomes :
                  IF ~out.success
                  THEN ret' = Failed([called EXCEPT !.outcomes = Append(@, out)], <<>>,
                                     <<"api step failed", step_idx>>)
                  ELSE ret' = [called EXCEPT
                                  !.outcomes = Append(@, out),
                                  !.pc = IF step_idx < Len(asked.recipe.steps) THEN "api"
                                         ELSE "sql",
                                  !.success = TRUE,
                                  !.error = <<>>,
                                  !.results = @ \cup {<<"api", step_idx>>},
                                  !.executed_items =
                                      IF out.call_rec THEN Append(@, <<"api", step_idx>>)
                                      ELSE @,
                                  !.last_result =
                                      IF out.data THEN <<"api", step_idx>> ELSE @]
    /\ UNCHANGED <<asked, max_size, records, by_key, lru, now, next_id, mutated, saved, touched, agent>>

\* an _execute_sql_steps whose failure empties the shared results and the
\* executed-items list
RunSqlStepRollsBack ==
    /\ ret.op = "execute_recipe"
    /\ ret.pc = "sql"
    /\ \E done \in {Len(SelectSeq(ret.invoked, LAMBDA call : call[1] = "sql"))} :
          IF done = Len(asked.recipe.sql_steps)
          THEN ret' = [ret EXCEPT !.pc = "returned", !.success = TRUE,
                                  !.last_data = ret.last_result]
          ELSE \E success \in BOOLEAN :
                  ret' = [ret EXCEPT
                             !.invoked = Append(@, <<"sql", done + 1>>),
                             !.executed_sql = Append(@, asked.recipe.sql_steps[done + 1]),
                             !.pc = IF success THEN "sql" ELSE "returned",
                             !.success = success,
                             !.error = IF success THEN <<>> ELSE <<"sql failed", done + 1>>,
                             !.results = IF success THEN @ ELSE {},
                             !.executed_items = IF success THEN @ ELSE <<>>]
    /\ UNCHANGED <<asked, max_size, records, by_key, lru, now, next_id, mutated, saved, touched, agent>>

\* an _execute_sql_steps that leaves the last-result slot alone
RunSqlStepKeepsLast ==
    /\ ret.op = "execute_recipe"
    /\ ret.pc = "sql"
    /\ \E done \in {Len(SelectSeq(ret.invoked, LAMBDA call : call[1] = "sql"))} :
          IF done = Len(asked.recipe.sql_steps)
          THEN ret' = [ret EXCEPT !.pc = "returned", !.success = TRUE,
                                  !.last_data = ret.last_result]
          ELSE \E success \in BOOLEAN :
                  ret' = [ret EXCEPT
                             !.invoked = Append(@, <<"sql", done + 1>>),
                             !.executed_sql = Append(@, asked.recipe.sql_steps[done + 1]),
                             !.pc = IF success THEN "sql" ELSE "returned",
                             !.success = success,
                             !.error = IF success THEN <<>> ELSE <<"sql failed", done + 1>>]
    /\ UNCHANGED <<asked, max_size, records, by_key, lru, now, next_id, mutated, saved, touched, agent>>

\* one turn of the loop of _execute_sql_steps: the next template is rendered and
\* run, and its text joins executed_sql before the outcome is looked at; its result
\* goes to the last-result slot.  Without a template left, execute_recipe_steps
\* returns what the last-result slot holds
RunSqlStep ==
    /\ ret.op = "execute_recipe"
    /\ ret.pc = "sql"
    /\ \E done \in {Len(SelectSeq(ret.invoked, LAMBDA call : call[1] = "sql"))} :
          IF done = Len(asked.recipe.sql_steps)
          THEN \E return_directly \in BOOLEAN :
               \E returned \in {[ret EXCEPT !.pc = "returned", !.success = TRUE,
                                            !.last_data = ret.last_result]} :
                  ret' = [returned EXCEPT !.response = ToolResponse(returned, return_directly)]
          ELSE \E sql \in {RenderTextTemplate(asked.recipe.sql_steps[done + 1], ret.params.v)} :
                  IF sql.raised
                  THEN ret' = [ret EXCEPT !.pc = "raised", !.success = FALSE,
                                          !.error = <<sql.error, done + 1>>]
                  ELSE \E success \in BOOLEAN :
                       \E ran \in {[ret EXCEPT
                                       !.invoked = Append(@, <<"sql", done + 1>>),
                                       !.executed_sql = Append(@, sql.val)]} :
                          IF success
                          THEN ret' = [ran EXCEPT !.pc = "sql", !.success = TRUE,
                                                  !.error = <<>>,
                                                  !.last_result = <<"sql", done + 1>>]
                          ELSE ret' = Failed(ran, ran.executed_sql,
                                             <<"sql failed", done + 1>>)
    /\ UNCHANGED <<asked, max_size, records, by_key, lru, now, next_id, mutated, saved, touched, agent>>

(* ------------- process_query, maybe_extract_and_save_recipe ------------- *)
\* the recipes extract_recipe is made to return: two with the same tool_name and
\* different steps, and one without a tool_name
MaybeRecipes ==
    {[tool_name |-> "list_users", params |-> <<>>, steps |-> <<"users_id">>, sql_steps |-> <<>>],
     [tool_name |-> "list_users", params |-> <<>>, steps |-> <<"users_name">>, sql_steps |-> <<>>],
     [params |-> <<>>, steps |-> <<"users_id">>, sql_steps |-> <<>>]}

\* what the awaited extract_recipe does: it raises an Exception, or returns None, an
\* empty dict, a list (an object without .get) or a recipe dict
ExtractorAnswers ==
    {[kind |-> "raises"], [kind |-> "none"], [kind |-> "empty"], [kind |-> "list"]}
    \cup {[kind |-> "dict", recipe |-> recipe] : recipe \in MaybeRecipes}

\* the request of an agent run: ENABLE_RECIPES, the recorded steps, the raw schema and
\* the calls tracked in _rest_calls
QueryRequest(api_type, enabled, steps, raw_schema, answer) ==
    [api_type |-> api_type, enabled |-> enabled, steps |-> steps, raw_schema |-> raw_schema,
     answer |-> answer, rest_calls |-> <<>>]

QueryRequests ==
    {QueryRequest(api_type, enabled, steps, raw_schema, answer) :
        api_type \in {"graphql", "rest"}, enabled \in BOOLEAN,
        steps \in {<<>>, <<"users_id">>}, raw_schema \in {"", "s1"},
        answer \in ExtractorAnswers}

\* the request in flight, before its agent run has come to an end
Running == [op |-> "process_query", pc |-> "running"]

\* process_query / process_rest_query start a request: the context variables are
\* reset
StartRequest ==
    /\ ret.op \in {"init", "process_query"}
    /\ ret.op = "process_query" => ret.pc = "returned"
    /\ asked' \in QueryRequests
    /\ ret' = Running
    /\ UNCHANGED <<max_size, records, by_key, lru, now, next_id, mutated, saved, touched, agent>>

\* the rest_call tool tracks its call
RestCall ==
    /\ ret = Running
    /\ asked.api_type = "rest"
    /\ Len(asked.rest_calls) < MaxRestCalls
    /\ asked' = [asked EXCEPT !.rest_calls = Append(@, [name |-> "data", success |-> TRUE])]
    /\ UNCHANGED <<max_size, records, by_key, lru, now, next_id, mutated, saved, touched, ret, agent>>

\* an attempt of the poll_until_done tool tracks its call
PollAttempt ==
    /\ ret = Running
    /\ asked.api_type = "rest"
    /\ Len(asked.rest_calls) < MaxRestCalls
    /\ \E attempt \in {1 + Cardinality({i \in DOMAIN asked.rest_calls :
                                          "poll_attempt" \in DOMAIN asked.rest_calls[i]})} :
          asked' = [asked EXCEPT !.rest_calls =
                       Append(@, [name |-> "poll_result", poll_attempt |-> attempt,
                                  success |-> TRUE])]
    /\ UNCHANGED <<max_size, records, by_key, lru, now, next_id, mutated, saved, touched, ret, agent>>

\* any("poll_attempt" in c for c in _rest_calls)
SkipPolling(rest_calls) == \E i \in DOMAIN rest_calls : "poll_attempt" \in DOMAIN rest_calls[i]

\* what a call of maybe_extract_and_save_recipe did: whether extract_recipe was
\* awaited, whether an exception left the call, whether one was logged, and the
\* save_recipe call made, if any
Extraction(invoked, raised, logged, save) ==
    [invoked |-> invoked, raised |-> raised, logged |-> logged, save |-> save]

\* maybe_extract_and_save_recipe without the skip_condition test
MaybeExtractIgnoresSkip(enabled, skip_condition, steps, raw_schema, answer) ==
    IF ~enabled \/ steps = <<>> \/ raw_schema = ""
    THEN Extraction(FALSE, FALSE, FALSE, <<>>)
    ELSE CASE answer.kind \in {"raises", "list"} -> Extraction(TRUE, FALSE, TRUE, <<>>)
           [] answer.kind \in {"none", "empty"} -> Extraction(TRUE, FALSE, FALSE, <<>>)
           [] answer.kind = "dict" ->
                Extraction(TRUE, FALSE, FALSE,
                           [schema_hash |-> Sha256Hex(raw_schema), recipe |-> answer.recipe,
                            tool_name |-> Get(answer.recipe, "tool_name", "")])

\* maybe_extract_and_save_recipe without its try ... except Exception
MaybeExtractNoCatch(enabled, skip_condition, steps, raw_schema, answer) ==
    IF ~enabled \/ skip_condition \/ steps = <<>> \/ raw_schema = ""
    THEN Extraction(FALSE, FALSE, FALSE, <<>>)
    ELSE CASE answer.kind \in {"raises", "list"} -> Extraction(TRUE, TRUE, FALSE, <<>>)
           [] answer.kind \in {"none", "empty"} -> Extraction(TRUE, FALSE, FALSE, <<>>)
           [] answer.kind = "dict" ->
                Extraction(TRUE, FALSE, FALSE,
                           [schema_hash |-> Sha256Hex(raw_schema), recipe |-> answer.recipe,
                            tool_name |-> Get(answer.recipe, "tool_name", "")])

\* maybe_extract_and_save_recipe: the three early returns; then, inside the try,
\* the hash of the schema, the awaited extract_recipe and, for a truthy recipe,
\* recipe.get("tool_name", "") and save_recipe.  An exception of extract_recipe, or
\* the AttributeError of .get on an object that is no dict, is caught and logged.
MaybeExtractAndSaveRecipe(enabled, skip_condition, steps, raw_schema, answer) ==
    IF ~enabled THEN Extraction(FALSE, FALSE, FALSE, <<>>)
    ELSE IF skip_condition THEN Extraction(FALSE, FALSE, FALSE, <<>>)
    ELSE IF ~(steps # <<>> /\ raw_schema # "") THEN Extraction(FALSE, FALSE, FALSE, <<>>)
    ELSE CASE answer.kind = "raises" -> Extraction(TRUE, FALSE, TRUE, <<>>)
           [] answer.kind \in {"none", "empty"} -> Extraction(TRUE, FALSE, FALSE, <<>>)
           [] answer.kind = "list" -> Extraction(TRUE, FALSE, TRUE, <<>>)
           [] answer.kind = "dict" ->
                Extraction(TRUE, FALSE, FALSE,
                           [schema_hash |-> Sha256Hex(raw_schema), recipe |-> answer.recipe,
                            tool_name |-> Get(answer.recipe, "tool_name", "")])

\* the response of the success path, and the one of the handler's own
\* except Exception
QueryResponse(api_type, rest_calls, raised) ==
    IF raised
    THEN [ok |-> FALSE, data |-> <<>>, calls |-> <<>>, error |-> "agent error"]
    ELSE [ok |-> TRUE, data |-> <<"o">>,
          calls |-> IF api_type = "rest" THEN rest_calls ELSE <<>>, error |-> <<>>]

\* the request has returned: what the extraction did, the key it worked under, the
\* ids of that key before the call, and the response
QueryReturned(done, key, before, response) ==
    [op |-> "process_query", pc |-> "returned", invoked |-> done.invoked,
     raised |-> done.raised, logged |-> done.logged, save |-> done.save, key |-> key,
     before |-> before, response |-> response]

\* the end of the success path of process_query (skip_condition left at False) and of
\* process_rest_query (skip_condition = skip_polling): the response values are
\* computed, maybe_extract_and_save_recipe is awaited, the response is returned
ProcessQueryReturns ==
    /\ ret = Running
    /\ \E skip_condition \in {asked.api_type = "rest" /\ SkipPolling(asked.rest_calls)} :
       \E done \in {MaybeExtractAndSaveRecipe(asked.enabled, skip_condition, asked.steps,
                                              asked.raw_schema, asked.answer)} :
       \E key \in {<<ExtractKey(asked.api_type)[1], Sha256Hex(asked.raw_schema)>>} :
       \E old \in {IF key \in DOMAIN by_key THEN by_key[key] ELSE <<>>} :
       \E response \in {QueryResponse(asked.api_type, asked.rest_calls, done.raised)} :
          IF done.save = <<>>
          THEN /\ ret' = QueryReturned(done, key, old, response)
               /\ UNCHANGED <<records, by_key, lru, next_id, saved, touched>>
          ELSE /\ next_id < MaxIds
               /\ \E recipe_id \in {next_id + 1} :
                  \E rec \in {NewRecord(recipe_id, key[1], done.save.schema_hash,
                                        ExtractQuestion, done.save.recipe,
                                        done.save.tool_name, now)} :
                  \E order \in AddOrders(old, recipe_id) :
                  \E st \in {SaveLocked(Store, rec, order, max_size)} :
                     /\ records' = st.records
                     /\ by_key' = st.by_key
                     /\ lru' = st.lru
                     /\ next_id' = recipe_id
                     /\ saved' = [i \in DOMAIN st.records |->
                                     IF i = recipe_id
                                     THEN [key |-> key, question |-> ExtractQuestion,
                                           recipe |-> done.save.recipe]
                                     ELSE saved[i]]
                     /\ touched' = SelectSeq(Append(Remove(touched, recipe_id), recipe_id),
                                             LAMBDA i : i \in DOMAIN st.records)
                     /\ ret' = QueryReturned(done, key, old, response)
    /\ UNCHANGED <<asked, max_size, now, mutated, agent>>

(* ------------------------ deduplicate_tool_name ------------------------ *)
\* str(n) of a natural number
DecimalStr[n \in Nat] ==
    IF n < 10 THEN <<<<"0", "1", "2", "3", "4", "5", "6", "7", "8", "9">>[n + 1]>>
    ELSE DecimalStr[n \div 10] \o <<<<"0", "1", "2", "3", "4", "5", "6", "7", "8", "9">>[(n % 10) + 1]>>

\* f"{base_name}_{counter}"
Suffixed(base_name, counter) == base_name \o <<"_">> \o DecimalStr[counter]

\* the tool names the stored recipes carry: a name, and names that end in _2
DedupBases == {<<"a">>, <<"a", "_", "2">>, <<"a", "_", "2", "_", "2">>}

\* the seen_names set the first call is given
DedupSeen == SUBSET {<<"a">>, <<"a", "_", "2">>, <<"a", "_", "3">>}

\* a call of deduplicate_tool_name in its loop
Dedup(pc, base_name, tool_name, counter, before) ==
    [op |-> "deduplicate_tool_name", pc |-> pc, base_name |-> base_name,
     tool_name |-> tool_name, counter |-> counter, before |-> before]

\* deduplicate_tool_name(base_name, seen_names) is called: tool_name = base_name,
\* counter = 2
DedupCall ==
    /\ ret.op \in {"init", "deduplicate_tool_name"}
    /\ ret.op = "deduplicate_tool_name" => ret.pc = "returned"
    /\ Len(agent.names) < MaxCalls
    /\ \E base_name \in DedupBases :
          ret' = Dedup("while", base_name, base_name, 2, agent.seen_names)
    /\ UNCHANGED <<asked, max_size, records, by_key, lru, now, next_id, mutated, saved, touched, agent>>

\* an iteration of the loop: tool_name is in seen_names
DedupLoop ==
    /\ ret.op = "deduplicate_tool_name"
    /\ ret.pc = "while"
    /\ ret.tool_name \in agent.seen_names
    /\ ret' = [ret EXCEPT !.tool_name = Suffixed(ret.base_name, ret.counter),
                          !.counter = ret.counter + 1]
    /\ UNCHANGED <<asked, max_size, records, by_key, lru, now, next_id, mutated, saved, touched, agent>>

\* the end of the loop without seen_names.add
DedupReturnForgets ==
    /\ ret.op = "deduplicate_tool_name"
    /\ ret.pc = "while"
    /\ ret.tool_name \notin agent.seen_names
    /\ agent' = [agent EXCEPT !.names = Append(@, ret.tool_name)]
    /\ ret' = [ret EXCEPT !.pc = "returned"]
    /\ UNCHANGED <<asked, max_size, records, by_key, lru, now, next_id, mutated, saved, touched>>

\* the loop ends: tool_name is not in seen_names; it is added and returned
DedupReturn ==
    /\ ret.op = "deduplicate_tool_name"
    /\ ret.pc = "while"
    /\ ret.tool_name \notin agent.seen_names
    /\ agent' = [agent EXCEPT !.seen_names = @ \cup {ret.tool_name},
                              !.names = Append(@, ret.tool_name)]
    /\ ret' = [ret EXCEPT !.pc = "returned"]
    /\ UNCHANGED <<asked, max_size, records, by_key, lru, now, next_id, mutated, saved, touched>>

(* --------------------- save_recipe with any uuid ------------------------ *)
\* save_recipe where f"r_{uuid.uuid4().hex[:8]}" is any id, one in use included;
\* next_id counts the calls
SaveAnyId ==
    /\ next_id < MaxIds
    /\ \E key \in Keys, recipe_id \in Ids, tool_name \in ToolNames :
       \E rec \in {NewRecord(recipe_id, key[1], key[2], ExtractQuestion,
                             FreshRecipe(next_id + 1), tool_name, now)} :
       \E order \in AddOrders(IF key \in DOMAIN by_key THEN by_key[key] ELSE <<>>, recipe_id) :
       \E st \in {SaveLocked(Store, rec, order, max_size)} :
          /\ records' = st.records
          /\ by_key' = st.by_key
          /\ lru' = st.lru
          /\ next_id' = next_id + 1
          /\ saved' = [i \in DOMAIN st.records |->
                          IF i = recipe_id
                          THEN [key |-> key, question |-> ExtractQuestion,
                                recipe |-> View(FreshRecipe(next_id + 1))]
                          ELSE saved[i]]
          /\ touched' = SelectSeq(Append(Remove(touched, recipe_id), recipe_id),
                                  LAMBDA i : i \in DOMAIN st.records)
          /\ ret' = [op |-> "save_recipe", args |-> <<key[1], key[2], ExtractQuestion>>,
                     found |-> TRUE, val |-> recipe_id, obj |-> FreshRecipe(next_id + 1)]
    /\ UNCHANGED <<asked, max_size, now, mutated, agent>>

(* ------------------- RecipeStore under several threads ------------------ *)
\* the suggest_recipes call of one thread: where it stands (pc), its arguments, the
\* records its locked section took out of the table (recs), the last_used_at values
\* read so far by the sort key (keys) and by the output loop (outs); history: the
\* answers suggest_recipes would have given on each store state since the call began
\* (at), and the list returned (val)
Suggesting(pc, args, recs, keys, outs, at, val) ==
    [pc |-> pc, args |-> args, recs |-> recs, keys |-> keys, outs |-> outs, at |-> at,
     val |-> val]

Idle == Suggesting("idle", <<>>, <<>>, <<>>, <<>>, {}, <<>>)

\* history: one more store state has come to exist during the call in flight
Observe(call, st) ==
    IF call.pc \in {"idle", "done"} THEN call
    ELSE [call EXCEPT !.at = @ \cup {SuggestOutput(st, call.args[1], call.args[2],
                                                   call.args[3], call.args[4]).val}]

\* save_recipe of another thread, while the store has room
ThreadSave ==
    /\ next_id < max_size
    /\ \E key \in AskKeys, tool_name \in ToolNames :
       \E recipe_id \in {next_id + 1} :
       \E rec \in {NewRecord(recipe_id, key[1], key[2], ExtractQuestion,
                             FreshRecipe(recipe_id), tool_name, now)} :
       \E order \in AddOrders(IF key \in DOMAIN by_key THEN by_key[key] ELSE <<>>, recipe_id) :
       \E st \in {SaveLocked(Store, rec, order, max_size)} :
          /\ records' = st.records
          /\ by_key' = st.by_key
          /\ lru' = st.lru
          /\ next_id' = recipe_id
          /\ saved' = [i \in DOMAIN st.records |->
                          IF i = recipe_id
                          THEN [key |-> key, question |-> ExtractQuestion,
                                recipe |-> View(FreshRecipe(recipe_id))]
                          ELSE saved[i]]
          /\ touched' = SelectSeq(Append(Remove(touched, recipe_id), recipe_id),
                                  LAMBDA i : i \in DOMAIN st.records)
          /\ ret' = [op |-> "save_recipe", args |-> <<key[1], key[2], ExtractQuestion>>,
                     found |-> TRUE, val |-> recipe_id, obj |-> FreshRecipe(recipe_id)]
          /\ asked' = Observe(asked, st)
    /\ UNCHANGED <<max_size, now, mutated, agent>>

\* get_recipe or get_recipe_meta of another thread
ThreadGet ==
    /\ \E recipe_id \in Ids, op \in {"get_recipe", "get_recipe_meta"} :
       \E st \in {IF op = "get_recipe" THEN GetRecipeEffect(Store, recipe_id, now)
                  ELSE GetRecipeMetaEffect(Store, recipe_id, now)} :
          /\ records' = st.records
          /\ by_key' = st.by_key
          /\ lru' = st.lru
          /\ touched' = Bump(touched, recipe_id)
          /\ ret' = [op |-> op, args |-> <<recipe_id>>, found |-> recipe_id \in DOMAIN records]
          /\ asked' = Observe(asked, st)
    /\ UNCHANGED <<max_size, now, next_id, mutated, saved, agent>>

\* the locked section of suggest_recipes: ids = list(bucket) and the records of the
\* ids, by reference
SuggestLock ==
    /\ asked.pc = "idle"
    /\ \E key \in AskKeys, k \in Ks :
          asked' = Suggesting("keys", <<key[1], key[2], ExtractQuestion, k>>,
                              BucketRecords(Store, key), <<>>, <<>>,
                              {SuggestOutput(Store, key[1], key[2], ExtractQuestion, k).val},
                              <<>>)
    /\ UNCHANGED <<max_size, records, by_key, lru, now, next_id, mutated, saved, touched, ret, agent>>

\* r.last_used_at of a record the call holds by reference: the value the table's
\* record has now (a record that was evicted keeps the value it had)
LastUsedAt(rec) ==
    IF rec.recipe_id \in DOMAIN records THEN records[rec.recipe_id].last_used_at
    ELSE rec.last_used_at

\* the (score, record) pairs of the call in flight; question_sig does not change
ScoredOf(call) == Scored(call.recs, NormalizeQuestion(call.args[3]))

\* the pairs sorted by the keys read, and cut to k
TopOf(call) ==
    LET scored == ScoredOf(call)
    IN Take(SortDesc([n \in 1..Len(scored) |->
                         [scored[n] EXCEPT !.rec.last_used_at = call.keys[n]]]),
            call.args[4])

\* scored.sort computes the key of the next pair: it reads the record's last_used_at,
\* outside the lock
SuggestSortKey ==
    /\ asked.pc = "keys"
    /\ \E scored \in {ScoredOf(asked)} :
          IF Len(asked.keys) < Len(scored)
          THEN \E rec \in {scored[Len(asked.keys) + 1].rec} :
                  asked' = [asked EXCEPT !.keys =
                               Append(@, LastUsedAt(rec))]
          ELSE asked' = [asked EXCEPT !.pc = "entries"]
    /\ UNCHANGED <<max_size, records, by_key, lru, now, next_id, mutated, saved, touched, ret, agent>>

\* the output loop builds the next entry: it reads the record's last_used_at, outside
\* the lock; after the last entry the list is returned
SuggestEntry ==
    /\ asked.pc = "entries"
    /\ \E top \in {TopOf(asked)} :
          IF Len(asked.outs) < Len(top)
          THEN /\ asked' = [asked EXCEPT !.outs =
                               Append(@, LastUsedAt(top[Len(asked.outs) + 1].rec))]
               /\ ret' = ret
          ELSE \E val \in {[n \in 1..Len(top) |->
                               [Entry(top[n]) EXCEPT !.last_used_at = asked.outs[n]]]} :
                  /\ asked' = [asked EXCEPT !.pc = "done", !.val = val]
                  /\ ret' = [op |-> "suggest_recipes", args |-> asked.args, val |-> val,
                             raw |-> [n \in 1..Len(top) |-> top[n].score]]
    /\ UNCHANGED <<max_size, records, by_key, lru, now, next_id, mutated, saved, touched, agent>>

(* -------------------- request-scoped context variables ------------------ *)
\* the ContextVars of the agent modules that hold a mutable container
CtxVars == {"graphql_queries", "recipe_steps", "sql_steps", "query_results", "last_result",
            "return_directly_flag"}

\* the tasks that handle requests, each with a context of its own
Handlers == {1, 2}

\* no value set in the context: ContextVar.get raises LookupError
Unset == <<>>

\* a container of the heap is named by the request that made it and the variable it
\* was made for; what was put into it is told by the tool call that wrote it
Tag(h, r, n) == <<h, r, n>>

\* copy_context() at task creation: the same bindings, the same objects
CopyContext(ctx) == [v \in DOMAIN ctx |-> ctx[v]]

\* list.append(item) / dict.update on the object a context binds to var; nothing
\* happens when the variable is unset (safe_append_contextvar_list, except LookupError)
AppendIn(heap, ctx, var, item) ==
    IF ctx[var] = Unset THEN heap
    ELSE [heap EXCEPT ![ctx[var]] = Append(@, item)]

\* _last_result.get()[0] = value
StoreIn(heap, ctx, var, item) ==
    IF ctx[var] = Unset THEN heap
    ELSE [heap EXCEPT ![ctx[var]] = <<item>>]

\* what a task reads through its context
ViewOf(heap, ctx) == [v \in DOMAIN ctx |-> IF ctx[v] = Unset THEN Unset ELSE heap[ctx[v]]]

\* history: the tool calls whose values a task can read through its context
SeenIn(heap, ctx) ==
    UNION {{heap[ctx[v]][i] : i \in DOMAIN heap[ctx[v]]} : v \in {x \in DOMAIN ctx : ctx[x] # Unset}}

\* a process_query that leaves the containers of the context as they are
StartQueryKeeps(h) ==
    /\ agent.task[h].pc = "idle"
    /\ agent.task[h].r < MaxRequests
    /\ \E r \in {agent.task[h].r + 1} :
          agent' = [agent EXCEPT
                       !.heap = [o \in DOMAIN agent.heap \cup {<<h, r, v>> : v \in CtxVars} |->
                                    IF o \in DOMAIN agent.heap THEN agent.heap[o] ELSE <<>>],
                       !.task[h] = [pc |-> "running", r |-> r, spawned |-> 0,
                                    ctx |-> [v \in CtxVars |->
                                                IF agent.task[h].ctx[v] = Unset THEN <<h, r, v>>
                                                ELSE agent.task[h].ctx[v]]],
                       !.tool = [t \in {u \in DOMAIN agent.tool : u[1] # h} |-> agent.tool[t]]]
    /\ UNCHANGED <<asked, max_size, records, by_key, lru, now, next_id, mutated, saved, touched, ret>>

\* process_query / process_rest_query begin: every variable is set to a new empty
\* container; the containers of the request before, which nothing refers to any
\* more, are gone
StartQuery(h) ==
    /\ agent.task[h].pc = "idle"
    /\ agent.task[h].r < MaxRequests
    /\ \E r \in {agent.task[h].r + 1} :
          agent' = [agent EXCEPT
                       !.heap = [o \in {x \in DOMAIN agent.heap : x[1] # h}
                                       \cup {<<h, r, v>> : v \in CtxVars} |->
                                    IF o[1] # h THEN agent.heap[o] ELSE <<>>],
                       !.task[h] = [pc |-> "running", r |-> r, spawned |-> 0,
                                    ctx |-> [v \in CtxVars |-> <<h, r, v>>]],
                       !.tool = [t \in {u \in DOMAIN agent.tool : u[1] # h} |-> agent.tool[t]]]
    /\ UNCHANGED <<asked, max_size, records, by_key, lru, now, next_id, mutated, saved, touched, ret>>

\* the agent run starts a tool call in a child task, which gets a copy of the
\* context of the request
SpawnTool(h) ==
    /\ agent.task[h].pc = "running"
    /\ agent.task[h].spawned < MaxTools
    /\ \E n \in {agent.task[h].spawned + 1} :
          agent' = [agent EXCEPT
                       !.task[h].spawned = n,
                       !.tool = [t \in DOMAIN agent.tool \cup {<<h, n>>} |->
                                    IF t = <<h, n>>
                                    THEN [pc |-> "spawned", ctx |-> CopyContext(agent.task[h].ctx),
                                          saw |-> {}, wrote |-> {}]
                                    ELSE agent.tool[t]]]
    /\ UNCHANGED <<asked, max_size, records, by_key, lru, now, next_id, mutated, saved, touched, ret>>

\* the tool call has run: what it read at its start and which variables it wrote
ToolDone(tool, ctx, saw, wrote) == [pc |-> "done", ctx |-> ctx, saw |-> saw, wrote |-> wrote]

\* a graphql_query that binds a new dict and a new list in its own context
GraphqlQueryRebinds(h, n) ==
    /\ <<h, n>> \in DOMAIN agent.tool
    /\ agent.tool[<<h, n>>].pc = "spawned"
    /\ \E tag \in {Tag(h, agent.task[h].r, n)}, ctx \in {agent.tool[<<h, n>>].ctx} :
          agent' = [agent EXCEPT
                       !.heap = [o \in DOMAIN agent.heap \cup {<<h, n, "own">>} |->
                                    IF o = <<h, n, "own">> THEN <<tag>> ELSE agent.heap[o]],
                       !.tool[<<h, n>>] =
                           ToolDone(@, [ctx EXCEPT !["query_results"] = <<h, n, "own">>,
                                                   !["graphql_queries"] = <<h, n, "own">>],
                                    SeenIn(agent.heap, ctx),
                                    {"query_results", "graphql_queries"})]
    /\ UNCHANGED <<asked, max_size, records, by_key, lru, now, next_id, mutated, saved, touched, ret>>

\* the graphql_query tool: on success the tables are merged into the results dict,
\* which is set again, the last result is stored in place and the step is appended;
\* the query is appended in any case; the flag is appended when asked for
GraphqlQuery(h, n) ==
    /\ <<h, n>> \in DOMAIN agent.tool
    /\ agent.tool[<<h, n>>].pc = "spawned"
    /\ \E success \in BOOLEAN, stored_data \in BOOLEAN, return_directly \in BOOLEAN :
       \E tag \in {Tag(h, agent.task[h].r, n)}, ctx \in {agent.tool[<<h, n>>].ctx} :
       \E h1 \in {IF success THEN AppendIn(agent.heap, ctx, "query_results", tag)
                  ELSE agent.heap} :
       \E h2 \in {IF success /\ stored_data THEN StoreIn(h1, ctx, "last_result", tag) ELSE h1} :
       \E h3 \in {IF success THEN AppendIn(h2, ctx, "recipe_steps", tag) ELSE h2} :
       \E h4 \in {AppendIn(h3, ctx, "graphql_queries", tag)} :
       \E h5 \in {IF return_directly /\ success
                  THEN AppendIn(h4, ctx, "return_directly_flag", tag) ELSE h4} :
          agent' = [agent EXCEPT
                       !.heap = h5,
                       !.tool[<<h, n>>] =
                           ToolDone(@, [ctx EXCEPT !["query_results"] = ctx["query_results"]],
                                    SeenIn(agent.heap, ctx),
                                    {"graphql_queries"}
                                    \cup (IF success THEN {"query_results", "recipe_steps"} ELSE {})
                                    \cup (IF success /\ stored_data THEN {"last_result"} ELSE {})
                                    \cup (IF success /\ return_directly
                                          THEN {"return_directly_flag"} ELSE {}))]
    /\ UNCHANGED <<asked, max_size, records, by_key, lru, now, next_id, mutated, saved, touched, ret>>

\* the sql_query tool: without data it returns an error; on success the rows are
\* stored in place as the last result, the statement is appended, and the flag when
\* asked for
SqlQuery(h, n) ==
    /\ <<h, n>> \in DOMAIN agent.tool
    /\ agent.tool[<<h, n>>].pc = "spawned"
    /\ \E success \in BOOLEAN, return_directly \in BOOLEAN :
       \E tag \in {Tag(h, agent.task[h].r, n)}, ctx \in {agent.tool[<<h, n>>].ctx} :
       \E saw \in {ViewOf(agent.heap, ctx)} :
       \E ok \in {success /\ saw["query_results"] # Unset /\ saw["query_results"] # <<>>} :
       \E h1 \in {IF ok THEN StoreIn(agent.heap, ctx, "last_result", tag) ELSE agent.heap} :
       \E h2 \in {IF ok THEN AppendIn(h1, ctx, "sql_steps", tag) ELSE h1} :
       \E h3 \in {IF ok /\ return_directly
                  THEN AppendIn(h2, ctx, "return_directly_flag", tag) ELSE h2} :
          agent' = [agent EXCEPT
                       !.heap = h3,
                       !.tool[<<h, n>>] =
                           ToolDone(@, ctx, SeenIn(agent.heap, ctx),
                                    (IF ok THEN {"last_result", "sql_steps"} ELSE {})
                                    \cup (IF ok /\ return_directly
                                          THEN {"return_directly_flag"} ELSE {}))]
    /\ UNCHANGED <<asked, max_size, records, by_key, lru, now, next_id, mutated, saved, touched, ret>>

\* the tool calls are over: the request reads its containers and returns
FinishQuery(h) ==
    /\ agent.task[h].pc = "running"
    /\ \A n \in 1..agent.task[h].spawned : agent.tool[<<h, n>>].pc = "done"
    /\ ret' = [op |-> "process_query", task |-> h, r |-> agent.task[h].r]
    /\ agent' = [agent EXCEPT !.task[h].pc = "idle"]
    /\ UNCHANGED <<asked, max_size, records, by_key, lru, now, next_id, mutated, saved, touched>>

(* ----------------------- _sanitize_for_tool_name ------------------------ *)
\* the length name[:40] cuts to
NameCap == 40

\* the regular-expression class \w on lowercase text
IsWordChar(c) == IsTokenChar(c) \/ c = "_"

\* str.isdigit() on one character
IsDigit(c) == c \in {"0", "1"}

\* re.sub(r"\s+", "_", s): every maximal run of whitespace becomes one underscore
RECURSIVE UnderscoreWs(_)
UnderscoreWs(s) ==
    IF s = <<>> THEN <<>>
    ELSE IF IsSpace(Head(s))
         THEN <<"_">> \o UnderscoreWs(LStrip(s))
         ELSE <<Head(s)>> \o UnderscoreWs(Tail(s))

\* str.strip("_")
RECURSIVE StripUnderscores(_)
StripUnderscores(s) ==
    IF s # <<>> /\ Head(s) = "_" THEN StripUnderscores(Tail(s))
    ELSE IF s # <<>> /\ s[Len(s)] = "_" THEN StripUnderscores(SubSeq(s, 1, Len(s) - 1))
    ELSE s

\* _sanitize_for_tool_name(question): what is neither \w nor \s is removed from the
\* lowercase question, runs of whitespace become "_", the name is cut to 40
\* characters and stripped of "_", and a name that starts with a digit gets "r_"
SanitizeForToolName(question) ==
    LET kept == SelectSeq(LowerStr(question), LAMBDA c : IsWordChar(c) \/ IsSpace(c))
        joined == UnderscoreWs(kept)
        name == StripUnderscores(SubSeq(joined, 1, MinInt(NameCap, Len(joined))))
    IN IF name # <<>> /\ IsDigit(name[1]) THEN <<"r", "_">> \o name ELSE name

\* the questions under test: a beginning, and one character repeated
SanitizeQuestions ==
    {head \o [i \in 1..n |-> c] :
        head \in {<<>>, <<"1">>, <<"A">>, <<" ">>, <<"-", "1">>, <<"_", "1">>},
        c \in {"a", " ", "1", "-"},
        n \in 0..MaxFill}

\* _sanitize_for_tool_name is called with the question drawn
SanitizeCall ==
    /\ ret.op = "init"
    /\ ret' = [op |-> "_sanitize_for_tool_name", args |-> <<asked>>,
               val |-> SanitizeForToolName(asked)]
    /\ UNCHANGED <<asked, max_size, records, by_key, lru, now, next_id, mutated, saved, touched, agent>>

(* ------------------ replay of an extracted recipe ---------------------- *)
\* the declarations an extractor's answer gives for p: a dict without a default,
\* with a default, with a default of null, and the bare type name
GuardParamChoices ==
    ParamChoices \cup {[type |-> "int", default |-> PyNone], PyStr(<<"i">>)}

GuardParamSpecs ==
    {ps \in UNION {[D -> GuardParamChoices] : D \in SUBSET {<<"p">>, <<"u">>}} :
        <<"u">> \in DOMAIN ps => ps[<<"u">>] = [type |-> "int", default |-> PyInt(<<"1">>)]}

\* traces of agent runs with a well-formed answer of the extractor
GuardTraces ==
    UNION {
        {[api_type |-> api_type, steps |-> [i \in 1..n |-> OriginalStep(api_type)],
          sql_steps |-> sql,
          output |-> Candidate("ok", params, steps, sql_steps)] :
            n \in 1..MaxSteps, sql \in {<<>>, <<SqlText>>}, params \in GuardParamSpecs,
            steps \in ListsUpTo(CandidateSteps(api_type), MaxSteps),
            sql_steps \in {<<>>} \cup ListsUpTo(SqlTemplates, 1)}
        : api_type \in {"graphql", "rest"}}

\* execute_recipe_tool on the recipe that was just saved: the record's recipe is
\* read from the store, the provided parameters are validated against its
\* declarations, and the call goes on to execute_recipe_steps or returns the error
CallExtracted ==
    /\ ret.op = "extract_recipe"
    /\ ret.pc = "saved"
    /\ next_id \in DOMAIN records
    /\ \E provided \in RunProvided :
       \E recipe \in {records[next_id].recipe} :
       \E v \in {ValidateRecipeParams(recipe.params, provided)} :
          /\ asked' = [api_type |-> asked.api_type, recipe |-> recipe, provided |-> provided]
          /\ ret' = Run(IF v.error # <<>> THEN "declined"
                        ELSE IF recipe.steps # <<>> THEN "api" ELSE "sql",
                        v.params, <<>>, v.error = <<>>, <<>>, v.error)
    /\ UNCHANGED <<max_size, records, by_key, lru, now, next_id, mutated, saved, touched, agent>>

(* --------------- _raw_schema across GraphQL requests ------------------- *)
\* what graphql_fetch answers to the introspection query: "" is a failure (or a
\* success without data), otherwise the schema it returns
SchemaFetches == {"", "s1", "s2"}

\* process_query of a GraphQL request up to the agent run, in a context that has
\* handled the requests before it.  The per-request variables are reset, _raw_schema
\* is not among them; _fetch_schema_context sets _raw_schema when the fetch
\* succeeds and returns "" before the set when it fails; search_recipes works on
\* safe_get_contextvar(_raw_schema, ""), and one recipe tool is made per suggestion
GraphqlProcessQuery ==
    /\ ret.op \in {"init", "process_query"}
    /\ ret.op = "process_query" => ret.pc = "returned"
    /\ agent.handled < MaxRequests
    /\ \E fetched \in SchemaFetches :
       \E raw_schema \in {IF fetched # "" THEN fetched ELSE agent.raw_schema} :
       \E suggestions \in
              {IF raw_schema = "" THEN <<>>
               ELSE SuggestOutput(Store, agent.api_id, Sha256Hex(raw_schema),
                                  ExtractQuestion, DefaultK).val} :
       \E ids \in {[n \in 1..Len(suggestions) |-> suggestions[n].recipe_id]} :
       \E st \in {GetAll(Store, ids \o ids \o ids, now)} :
          /\ records' = st.records
          /\ by_key' = st.by_key
          /\ lru' = st.lru
          /\ touched' = BumpAll(touched, ids)
          /\ agent' = [agent EXCEPT !.raw_schema = raw_schema, !.tools = Range(ids),
                                    !.handled = @ + 1]
          /\ \E steps \in {<<>>, <<"users_id">>}, answer \in ExtractorAnswers :
                asked' = [fetched |-> fetched, steps |-> steps, answer |-> answer]
          /\ ret' = [op |-> "process_query", pc |-> "running", suggestions |-> ids]
    /\ UNCHANGED <<max_size, now, next_id, mutated, saved>>

\* the end of the success path: maybe_extract_and_save_recipe is awaited with
\* raw_schema = safe_get_contextvar(_raw_schema, "")
GraphqlQueryReturns ==
    /\ ret.op = "process_query"
    /\ ret.pc = "running"
    /\ \E done \in {MaybeExtractAndSaveRecipe(TRUE, FALSE, asked.steps, agent.raw_schema,
                                              asked.answer)} :
       \E key \in {<<agent.api_id, Sha256Hex(agent.raw_schema)>>} :
       \E old \in {IF key \in DOMAIN by_key THEN by_key[key] ELSE <<>>} :
       \E returned \in {[op |-> "process_query", pc |-> "returned",
                         suggestions |-> ret.suggestions, invoked |-> done.invoked,
                         save |-> done.save]} :
          IF done.save = <<>>
          THEN /\ ret' = returned
               /\ UNCHANGED <<records, by_key, lru, next_id, saved, touched>>
          ELSE /\ next_id < MaxIds
               /\ \E recipe_id \in {next_id + 1} :
                  \E rec \in {NewRecord(recipe_id, key[1], done.save.schema_hash,
                                        ExtractQuestion, done.save.recipe,
                                        done.save.tool_name, now)} :
                  \E order \in AddOrders(old, recipe_id) :
                  \E st \in {SaveLocked(Store, rec, order, max_size)} :
                     /\ records' = st.records
                     /\ by_key' = st.by_key
                     /\ lru' = st.lru
                     /\ next_id' = recipe_id
                     /\ saved' = [i \in DOMAIN st.records |->
                                     IF i = recipe_id
                                     THEN [key |-> key, question |-> ExtractQuestion,
                                           recipe |-> done.save.recipe]
                                     ELSE saved[i]]
                     /\ touched' = SelectSeq(Append(Remove(touched, recipe_id), recipe_id),
                                             LAMBDA i : i \in DOMAIN st.records)
                     /\ ret' = returned
    /\ UNCHANGED <<asked, max_size, now, mutated, agent>>

(* ------------------ execute_request, REST step replay ------------------ *)
\* _UNSAFE_METHODS
UnsafeMethods == {"POST", "PUT", "DELETE", "PATCH"}

\* the methods a call or a recipe step names
StepMethods == {"GET", "get", "POST", "post", "PUT", "DELETE", "PATCH", "HEAD"}

\* str.upper() on the methods used
UpperMethod(method) ==
    CASE method = "get" -> "GET" [] method = "post" -> "POST" [] OTHER -> method

\* fnmatch.fnmatch(name, pat) on a POSIX system, for patterns of literal characters,
\* * (any run of characters, "/" included) and ? (any one character): the whole
\* name has to match
RECURSIVE Fnmatch(_, _)
Fnmatch(name, pat) ==
    IF pat = <<>> THEN name = <<>>
    ELSE IF Head(pat) = "*"
    THEN Fnmatch(name, Tail(pat)) \/ (name # <<>> /\ Fnmatch(Tail(name), pat))
    ELSE IF Head(pat) = "?" THEN name # <<>> /\ Fnmatch(Tail(name), Tail(pat))
    ELSE name # <<>> /\ Head(name) = Head(pat) /\ Fnmatch(Tail(name), Tail(pat))

\* _is_path_allowed(path, patterns)
IsPathAllowed(path, patterns) == \E i \in DOMAIN patterns : Fnmatch(path, patterns[i])

\* an execute_request without the read-only block
ExecuteRequestUnguarded(method, path, base_url, allow_unsafe, allow_unsafe_paths) ==
    IF base_url = "" THEN "no base url"
    ELSE IF UpperMethod(method) \in {"GET", "POST", "PUT", "PATCH", "DELETE"} THEN "sent"
    ELSE "unsupported"

\* execute_request up to the HTTP call: "blocked" for an unsafe method outside the
\* allowlist, "no base url" for the ValueError of _build_url, "unsupported" for a
\* method httpx is not called for, "sent" when the request goes out
ExecuteRequest(method, path, base_url, allow_unsafe, allow_unsafe_paths) ==
    IF /\ UpperMethod(method) \in UnsafeMethods
       /\ ~allow_unsafe
       /\ (allow_unsafe_paths = <<>> \/ ~IsPathAllowed(path, allow_unsafe_paths))
    THEN "blocked"
    ELSE IF base_url = "" THEN "no base url"
    ELSE IF UpperMethod(method) \in {"GET", "POST", "PUT", "PATCH", "DELETE"} THEN "sent"
    ELSE "unsupported"

\* the paths of the API and the X-Allow-Unsafe-Paths lists of a request
ApiPaths == {<<"/", "a">>, <<"/", "b">>, <<"/", "a", "/", "b">>}

AllowLists ==
    {<<>>, <<<<"/", "a">>>>, <<<<"/", "*">>>>, <<<<"/", "b">>, <<"/", "a", "/", "?">>>>,
     <<<<"a">>>>}

\* the rest_call tool of the request a recipe is extracted from: execute_request
\* under that request's allowlist; a successful call is recorded as a step, and the
\* extractor keeps method (in any case) and path
RestCallRecorded ==
    /\ ret.op = "init"
    /\ \E out \in {ExecuteRequest(asked.method, asked.path, "b", FALSE, asked.extract_paths)} :
       \E success \in {FALSE} \cup {sent \in {TRUE} : out = "sent"} :
          ret' = [op |-> "rest_call", out |-> out, success |-> success,
                  steps |-> IF success
                            THEN <<[kind |-> "rest", method |-> asked.method,
                                    path |-> asked.path]>>
                            ELSE <<>>]
    /\ UNCHANGED <<asked, max_size, records, by_key, lru, now, next_id, mutated, saved, touched, agent>>

\* rest_step_executor of execute_recipe_tool (by = "runner") and of the recipe tool
\* of process_rest_query (by = "agent") on the recorded step, in a later request:
\* execute_request is called with allow_unsafe left at False and the allowlist of
\* the context the executor is bound to
RestStepExecutor(by) ==
    /\ ret.op = "rest_call"
    /\ ret.steps # <<>>
    /\ \E method \in {m \in StepMethods : UpperMethod(m) = UpperMethod(ret.steps[1].method)} :
       \E base_url \in {"", "b"} :
       \E out \in {IF by = "runner" /\ base_url = "" THEN "no base url"
                    ELSE ExecuteRequest(UpperMethod(method), ret.steps[1].path, base_url,
                                        FALSE, asked.replay_paths)} :
       \E success \in {FALSE} \cup {sent \in {TRUE} : out = "sent"} :
          ret' = [op |-> "rest_step_executor", by |-> by, method |-> method,
                  path |-> ret.steps[1].path, base_url |-> base_url, out |-> out,
                  success |-> success]
    /\ UNCHANGED <<asked, max_size, records, by_key, lru, now, next_id, mutated, saved, touched, agent>>

(* ---------------- DynamicToolNamingMiddleware, tool names --------------- *)
\* the longest API name extract_api_name and get_tool_name_prefix return
ApiNameCap == 32

\* RECIPE_PREFIX_STR
RecipePrefixStr == <<"r", "_">>

\* the names the tools are registered under (tools/query.py, tools/execute.py)
InternalTools == {<<"_", "q", "u", "e", "r", "y">>, <<"_", "e", "x", "e", "c", "u", "t", "e">>}

\* str.startswith(prefix)
StartsWith(text, prefix) ==
    Len(text) >= Len(prefix) /\ SubSeq(text, 1, Len(prefix)) = prefix

\* str.removeprefix(prefix)
RemovePrefix(text, prefix) ==
    IF StartsWith(text, prefix) THEN SubSeq(text, Len(prefix) + 1, Len(text)) ELSE text

\* re.sub(r"[\s\-]+", "_", name): every maximal run of whitespace and hyphens
\* becomes one underscore
RECURSIVE UnderscoreSeparators(_)
UnderscoreSeparators(name) ==
    IF name = <<>> THEN <<>>
    ELSE IF IsSpace(Head(name)) \/ Head(name) = "-"
    THEN IF Len(name) > 1 /\ (IsSpace(name[2]) \/ name[2] = "-")
         THEN UnderscoreSeparators(Tail(name))
         ELSE <<"_">> \o UnderscoreSeparators(Tail(name))
    ELSE <<Head(name)>> \o UnderscoreSeparators(Tail(name))

\* [a-zA-Z0-9_], on the characters used
IsSnakeChar(c) == c \in {"r", "R", "a", "x", "1", "_"}

\* str.lower(), on the characters used
LowerName(name) == [i \in 1..Len(name) |-> IF name[i] = "R" THEN "r" ELSE name[i]]

\* _to_snake_case(name)
ToSnakeCase(name) ==
    StripUnderscores(LowerName(SelectSeq(UnderscoreSeparators(name), IsSnakeChar)))

\* "_".join(parts)
RECURSIVE JoinUnderscore(_)
JoinUnderscore(parts) ==
    IF parts = <<>> THEN <<>>
    ELSE IF Len(parts) = 1 THEN parts[1]
    ELSE parts[1] \o <<"_">> \o JoinUnderscore(Tail(parts))

\* the host name labels get_tool_name_prefix leaves out
SkipLabels == {<<"c", "o", "m">>, <<"i", "o">>, <<"a", "p", "i">>}

\* get_tool_name_prefix(url), url given by the labels of its host name (<<>> for a
\* URL without one)
GetToolNamePrefix(labels) ==
    LET meaningful == [i \in 1..Len(SelectSeq(labels, LAMBDA l : l \notin SkipLabels /\ l # <<>>)) |->
                          ToSnakeCase(SelectSeq(labels,
                                                LAMBDA l : l \notin SkipLabels /\ l # <<>>)[i])]
        joined == Take(JoinUnderscore(meaningful), ApiNameCap)
    IN IF labels = <<>> \/ joined = <<>> THEN <<"a", "p", "i">> ELSE joined

\* extract_api_name(headers): a truthy X-API-Name header wins over the prefix made
\* from X-Target-URL
ExtractApiName(headers) ==
    IF "x-api-name" \in DOMAIN headers /\ headers["x-api-name"] # <<>>
    THEN Take(ToSnakeCase(headers["x-api-name"]), ApiNameCap)
    ELSE GetToolNamePrefix(headers["x-target-url"])

\* _get_tool_suffix(internal_name): INTERNAL_TOOL_PATTERN is ^_(.+)$
GetToolSuffix(internal_name) ==
    IF Len(internal_name) > 1 /\ Head(internal_name) = "_" THEN Tail(internal_name)
    ELSE internal_name

\* the name on_list_tools gives an internal tool under the headers
ListedName(headers, tool) == ExtractApiName(headers) \o <<"_">> \o GetToolSuffix(tool)

\* what on_call_tool does with a tool name under the headers: a name with the
\* recipe prefix is looked up as a recipe slug, a name without the API prefix is
\* refused, any other name is forwarded under its internal name
OnCallTool(headers, tool_name) ==
    LET expected_prefix == ExtractApiName(headers) \o <<"_">>
    IN IF StartsWith(tool_name, RecipePrefixStr)
       THEN [kind |-> "recipe", name |-> RemovePrefix(tool_name, RecipePrefixStr)]
       ELSE IF ~StartsWith(tool_name, expected_prefix)
       THEN [kind |-> "not_found", name |-> tool_name]
       ELSE [kind |-> "forwarded", name |-> <<"_">> \o RemovePrefix(tool_name, expected_prefix)]

\* the characters of an X-API-Name header, and the host names of an X-Target-URL
ApiNameChars == {"r", "R", "a", "-", " ", "_", "!"}

HostNames ==
    {<<>>, <<<<"a", "p", "i">>, <<"c", "o", "m">>>>, <<<<"r">>, <<"c", "o", "m">>>>,
     <<<<"r", "-", "x">>, <<"i", "o">>>>, <<<<"a">>, <<"r">>, <<"i", "o">>>>}

ToolHeaders ==
    {[h \in {"x-target-url"} |-> host] : host \in HostNames}
    \cup {[h \in {"x-target-url", "x-api-name"} |->
              IF h = "x-api-name" THEN name ELSE <<<<"a">>, <<"c", "o", "m">>>>] :
              name \in UNION {[1..n -> ApiNameChars] : n \in 0..MaxLen}}

\* on_list_tools under the headers of the session: every internal tool is renamed
\* (the recipe tools of the store follow them in the list)
OnListTools ==
    /\ ret.op = "init"
    /\ ret' = [op |-> "on_list_tools",
               listed |-> {[tool |-> tool, name |-> ListedName(asked, tool)] :
                              tool \in InternalTools}]
    /\ UNCHANGED <<asked, max_size, records, by_key, lru, now, next_id, mutated, saved, touched, agent>>

\* the client calls a tool by a name of the list, under the same headers
CallListedTool ==
    /\ ret.op = "on_list_tools"
    /\ \E entry \in ret.listed :
          ret' = [op |-> "on_call_tool", tool |-> entry.tool, name |-> entry.name,
                  call |-> OnCallTool(asked, entry.name)]
    /\ UNCHANGED <<asked, max_size, records, by_key, lru, now, next_id, mutated, saved, touched, agent>>

(* --------------------------- poll_until_done --------------------------- *)
\* str(current): the text of a str, "None" for None
StrOf(value) == IF value.t = "none" THEN <<"N", "o", "n", "e">> ELSE value.v

\* str.lower() on the characters of the values compared
LowerText(text) == [i \in 1..Len(text) |-> IF text[i] = "N" THEN "n" ELSE LowerChar(text[i])]

\* _get_nested_value(data, "status") on a response dict: None for falsy data, for a
\* missing key and for a null
GetNestedValue(data) ==
    IF DOMAIN data = {} THEN PyNone
    ELSE IF "status" \notin DOMAIN data THEN PyNone
    ELSE data.status

\* what execute_request returns to a poll: a failure, or a success with its data
PollResponses ==
    {[success |-> FALSE]}
    \cup {[success |-> TRUE, data |-> data] :
             data \in {<<>>, [id |-> PyStr(<<"a">>)]}
                      \cup {[status |-> v] : v \in {PyStr(<<"a">>), PyStr(<<"A">>),
                                                     PyStr(<<"b">>), PyNone}}}

\* the body of the call: none, one without polling.count, one with a count, one
\* whose count is a text
PollBodies ==
    {<<>>, [polling |-> <<>>], [polling |-> [count |-> [t |-> "int", v |-> 0]]],
     [polling |-> [count |-> PyStr(<<"1">>)]]}

PollDoneValues == {<<"a">>, <<"A">>, <<"n", "o", "n", "e">>}

\* the call in flight: where it stands, attempt, the body as the loop left it, the
\* responses received, and what it returned
Polling(pc, attempt, body_dict, responses, result) ==
    [op |-> "poll_until_done", pc |-> pc, attempt |-> attempt, body_dict |-> body_dict,
     responses |-> responses, result |-> result]

\* the tool is called: the JSON arguments are parsed, attempt = 0
PollCall ==
    /\ ret.op = "init"
    /\ ret' = Polling("loop", 0, asked.body, <<>>, <<>>)
    /\ UNCHANGED <<asked, max_size, records, by_key, lru, now, next_id, mutated, saved, touched, agent>>

\* body_dict.get("polling", {}).get("count") is not None
HasCount(body_dict) ==
    /\ "polling" \in DOMAIN body_dict
    /\ "count" \in DOMAIN body_dict.polling

\* one turn of the loop: the request is sent and tracked; a failed request, a first
\* response without the done field, and a response whose done field matches end the
\* call; otherwise, after the sleep, polling.count is incremented when the body has
\* one, which raises TypeError for a count that is no number
PollTurn ==
    /\ ret.op = "poll_until_done"
    /\ ret.pc = "loop"
    /\ ret.attempt < MaxPolls
    /\ \E attempt \in {ret.attempt + 1}, result \in PollResponses :
       \E responses \in {Append(ret.responses, result)} :
          IF ~result.success
          THEN ret' = Polling("returned", attempt, ret.body_dict, responses,
                              [success |-> FALSE, error |-> "request failed",
                               attempt |-> attempt])
          ELSE \E current \in {GetNestedValue(result.data)} :
                  IF current = PyNone /\ attempt = 1
                  THEN ret' = Polling("returned", attempt, ret.body_dict, responses,
                                      [success |-> FALSE, error |-> "done_field not found"])
                  ELSE IF LowerText(StrOf(current)) = LowerText(asked.done_value)
                  THEN ret' = Polling("returned", attempt, ret.body_dict, responses,
                                      [success |-> TRUE, attempts |-> attempt])
                  ELSE IF ~HasCount(ret.body_dict)
                  THEN ret' = Polling("loop", attempt, ret.body_dict, responses, <<>>)
                  ELSE IF ret.body_dict.polling.count.t # "int"
                  THEN ret' = Polling("raised", attempt, ret.body_dict, responses,
                                      [raised |-> "TypeError"])
                  ELSE ret' = Polling("loop", attempt,
                                      [polling |-> [count |->
                                          [t |-> "int",
                                           v |-> ret.body_dict.polling.count.v + 1]]],
                                      responses, <<>>)
    /\ UNCHANGED <<asked, max_size, records, by_key, lru, now, next_id, mutated, saved, touched, agent>>

\* the loop ends with attempt = max_polls: the max_polls error is returned
PollExceeded ==
    /\ ret.op = "poll_until_done"
    /\ ret.pc = "loop"
    /\ ~(ret.attempt < MaxPolls)
    /\ ret' = [ret EXCEPT !.pc = "returned",
                          !.result = [success |-> FALSE, error |-> "max_polls exceeded",
                                      attempts |-> ret.attempt]]
    /\ UNCHANGED <<asked, max_size, records, by_key, lru, now, next_id, mutated, saved, touched, agent>>

(* --------------------------- specification ----------------------------- *)
\* a store just built, and no call made yet
EmptyStore ==
    /\ records = <<>>
    /\ by_key = <<>>
    /\ lru = <<>>
    /\ now = 0
    /\ next_id = 0
    /\ mutated = {}
    /\ saved = <<>>
    /\ touched = <<>>
    /\ ret = [op |-> "init"]
    /\ agent = [api_id |-> "", raw_schema |-> "", tools |-> {}]

Init ==
    /\ asked = <<>>
    /\ max_size \in {InitMaxSize(arg) : arg \in -1..MaxCap}
    /\ EmptyStore

Next ==
    \/ Tick
    \/ SaveRecipe
    \/ GetRecipe
    \/ GetRecipeMeta
    \/ SuggestRecipes

Spec == Init /\ [][Next]_vars

\* the execution paths: saves by other requests, agent requests with their recipe
\* tools, and execute_recipe_tool
NextExec ==
    \/ SaveRecipe
    \/ GetRecipe
    \/ GetRecipeMeta
    \/ ProcessQuery
    \/ DynamicRecipeTool
    \/ ExecuteRecipeTool
    \/ ApiStep
    \/ SqlStep

SpecExec == Init /\ [][NextExec]_vars

\* callers that change the recipe objects they passed in or got back
NextCopy ==
    \/ SaveRecipe
    \/ GetRecipe
    \/ GetRecipeMeta
    \/ MutateTop
    \/ MutateNested

SpecCopy == Init /\ [][NextCopy]_vars

\* _similarity on every triple of short questions
InitSim ==
    /\ \E q1 \in StringsUpTo(MaxLen), s \in StringsUpTo(MaxSigLen) :
         \E q2 \in SameTokens(q1) : asked = <<q1, q2, s>>
    /\ max_size = InitMaxSize(MaxCap)
    /\ EmptyStore

NextSim == SimilarityCall

SpecSim == InitSim /\ [][NextSim]_vars

\* a store that is asked about every short question
InitAsk ==
    /\ \E q \in StringsUpTo(MaxLen) : asked = <<q>>
    /\ max_size = InitMaxSize(MaxCap)
    /\ EmptyStore

NextAsk ==
    \/ SaveAsked
    \/ SuggestAsked

SpecAsk == InitAsk /\ [][NextAsk]_vars

\* agent runs that leave a trace, and the extractor's answer to it
InitExtract ==
    /\ asked \in Traces
    /\ max_size = InitMaxSize(MaxCap)
    /\ EmptyStore

NextExtract ==
    \/ EarlierSave
    \/ ExtractorReturns
    \/ CheckStructure
    \/ CheckToolName
    \/ CheckParamUsage
    \/ CheckEquivalence
    \/ SaveExtracted

SpecExtract == InitExtract /\ [][NextExtract]_vars

\* the two renderers on every template and object under test
InitRender ==
    /\ \/ \E pieces \in {<<>>} \cup ListsUpTo(Pieces, MaxPieces), params \in RenderParams :
             asked = [kind |-> "text", pieces |-> pieces, template |-> Join(pieces),
                      params |-> params]
       \/ \E leaves \in [1..3 -> Leaves], params \in RenderParams :
             asked = [kind |-> "obj", leaves |-> leaves, obj |-> ObjectOf(leaves),
                      params |-> params]
    /\ max_size = InitMaxSize(MaxCap)
    /\ EmptyStore

NextRender ==
    \/ RenderText
    \/ RenderRefs

SpecRender == InitRender /\ [][NextRender]_vars

\* calls of stored recipes: the parameters are validated, then the steps run
InitRun ==
    /\ asked \in Runs
    /\ max_size = InitMaxSize(MaxCap)
    /\ EmptyStore

NextRun ==
    \/ ValidateParams
    \/ RunApiStep
    \/ RunSqlStep

SpecRun == InitRun /\ [][NextRun]_vars

\* the same calls when every step call returns: an execution that can take its next
\* step takes it
SpecRunFair == InitRun /\ [][NextRun]_vars /\ WF_vars(NextRun)

\* requests, one after the other, that end on the success path
InitMaybe ==
    /\ asked = <<>>
    /\ max_size = InitMaxSize(MaxCap)
    /\ EmptyStore

NextMaybe ==
    \/ StartRequest
    \/ RestCall
    \/ PollAttempt
    \/ ProcessQueryReturns

SpecMaybe == InitMaybe /\ [][NextMaybe]_vars

\* calls of deduplicate_tool_name that share one seen_names set; a call that has
\* begun goes on, as nothing in the loop waits
InitDedup ==
    /\ asked = <<>>
    /\ max_size = InitMaxSize(MaxCap)
    /\ records = <<>>
    /\ by_key = <<>>
    /\ lru = <<>>
    /\ now = 0
    /\ next_id = 0
    /\ mutated = {}
    /\ saved = <<>>
    /\ touched = <<>>
    /\ ret = [op |-> "init"]
    /\ \E seen_names \in DedupSeen : agent = [seen_names |-> seen_names, names |-> <<>>]

NextDedup ==
    \/ DedupCall
    \/ DedupLoop
    \/ DedupReturn

SpecDedup == InitDedup /\ [][NextDedup]_vars /\ WF_vars(DedupLoop) /\ WF_vars(DedupReturn)

\* threads that save and get while one thread is in suggest_recipes
InitThreads ==
    /\ asked = Idle
    /\ max_size = InitMaxSize(MaxCap)
    /\ EmptyStore

NextThreads ==
    \/ Tick
    \/ ThreadSave
    \/ ThreadGet
    \/ SuggestLock
    \/ SuggestSortKey
    \/ SuggestEntry

SpecThreads == InitThreads /\ [][NextThreads]_vars

\* two tasks that handle requests, one after the other in each task, with tool
\* calls in child tasks
InitContexts ==
    /\ asked = <<>>
    /\ max_size = InitMaxSize(MaxCap)
    /\ records = <<>>
    /\ by_key = <<>>
    /\ lru = <<>>
    /\ now = 0
    /\ next_id = 0
    /\ mutated = {}
    /\ saved = <<>>
    /\ touched = <<>>
    /\ ret = [op |-> "init"]
    /\ agent = [heap |-> <<>>,
                task |-> [h \in Handlers |->
                             [pc |-> "idle", r |-> 0, spawned |-> 0,
                              ctx |-> [v \in CtxVars |-> Unset]]],
                tool |-> <<>>]

NextContexts ==
    \/ \E h \in Handlers : StartQuery(h)
    \/ \E h \in Handlers : SpawnTool(h)
    \/ \E h \in Handlers, n \in 1..MaxTools : GraphqlQuery(h, n)
    \/ \E h \in Handlers, n \in 1..MaxTools : SqlQuery(h, n)
    \/ \E h \in Handlers : FinishQuery(h)

SpecContexts == InitContexts /\ [][NextContexts]_vars

\* _sanitize_for_tool_name on every question under test
InitSanitize ==
    /\ asked \in SanitizeQuestions
    /\ max_size = InitMaxSize(MaxCap)
    /\ EmptyStore

NextSanitize == SanitizeCall

SpecSanitize == InitSanitize /\ [][NextSanitize]_vars

\* the store when uuid4 may hand out an id twice
NextIds ==
    \/ SaveAnyId
    \/ GetRecipe
    \/ GetRecipeMeta
    \/ Suggest(Keys, {ExtractQuestion})

SpecIds == Init /\ [][NextIds]_vars

\* a trace is extracted, the recipe saved, and the saved recipe called
InitGuard ==
    /\ asked \in GuardTraces
    /\ max_size = InitMaxSize(MaxCap)
    /\ EmptyStore

NextGuard ==
    \/ ExtractorReturns
    \/ CheckStructure
    \/ CheckToolName
    \/ CheckParamUsage
    \/ CheckEquivalence
    \/ SaveExtracted
    \/ CallExtracted
    \/ RunApiStep
    \/ RunSqlStep

SpecGuard == InitGuard /\ [][NextGuard]_vars

\* GraphQL requests handled one after the other in one context, _raw_schema not
\* yet set
InitSchema ==
    /\ asked = <<>>
    /\ max_size = InitMaxSize(MaxCap)
    /\ records = <<>>
    /\ by_key = <<>>
    /\ lru = <<>>
    /\ now = 0
    /\ next_id = 0
    /\ mutated = {}
    /\ saved = <<>>
    /\ touched = <<>>
    /\ ret = [op |-> "init"]
    /\ agent = [api_id |-> "graphql:a", raw_schema |-> "", tools |-> {}, handled |-> 0]

NextSchema ==
    \/ GraphqlProcessQuery
    \/ GraphqlQueryReturns

SpecSchema == InitSchema /\ [][NextSchema]_vars

\* a call of one request becomes a recipe step that a request with another
\* allowlist replays
InitReplay ==
    /\ \E method \in StepMethods, path \in ApiPaths, extract_paths \in AllowLists,
          replay_paths \in AllowLists :
          asked = [method |-> method, path |-> path, extract_paths |-> extract_paths,
                   replay_paths |-> replay_paths]
    /\ max_size = InitMaxSize(MaxCap)
    /\ EmptyStore

NextReplay ==
    \/ RestCallRecorded
    \/ RestStepExecutor("runner")
    \/ RestStepExecutor("agent")

SpecReplay == InitReplay /\ [][NextReplay]_vars

\* sessions with every set of headers: the tools are listed, then one is called
InitNaming ==
    /\ asked \in ToolHeaders
    /\ max_size = InitMaxSize(MaxCap)
    /\ EmptyStore

NextNaming ==
    \/ OnListTools
    \/ CallListedTool

SpecNaming == InitNaming /\ [][NextNaming]_vars

\* calls of poll_until_done with every body and done_value, the endpoint answering
\* each request in any way
InitPoll ==
    /\ \E body \in PollBodies, done_value \in PollDoneValues :
          asked = [body |-> body, done_value |-> done_value]
    /\ max_size = InitMaxSize(MaxCap)
    /\ EmptyStore

NextPoll ==
    \/ PollCall
    \/ PollTurn
    \/ PollExceeded

SpecPoll == InitPoll /\ [][NextPoll]_vars

\* every awaited request and sleep comes back (httpx timeout, finite delay), so a
\* call that can take its next step takes it
SpecPollFair == SpecPoll /\ WF_vars(NextPoll)

(* ------------------------------ properties ----------------------------- *)
\* the ids of the stored records that were saved under key
SavedUnder(key) == {i \in DOMAIN records : i \in DOMAIN saved /\ saved[i].key = key}

\* the ids of the entries of a list returned by suggest_recipes
EntryIds(out) == {out[n].recipe_id : n \in DOMAIN out}

\* C1: a store built with capacity N (an argument below 1 counts as 1) holds at most
\* N records whenever no call is in progress, whatever sequence of save_recipe,
\* get_recipe, get_recipe_meta and suggest_recipes calls came before
C1_CapacityNeverExceeded ==
    /\ max_size >= 1
    /\ Cardinality(DOMAIN records) <= max_size

\* a full store of capacity above 1 that has already evicted a record
C1_Witness ==
    /\ max_size > 1
    /\ Cardinality(DOMAIN records) = max_size
    /\ next_id > max_size

\* C2: a save into a full store leaves exactly capacity records; the record evicted
\* is the one whose latest touch (by save_recipe, get_recipe or get_recipe_meta) is
\* the oldest; a record read with get_recipe just before the overflowing save is not
\* evicted when the capacity is at least 2; the record just saved is never evicted
C2_EvictsLeastRecentlyTouched ==
    [][(next_id' = next_id + 1) =>
         LET new == next_id'
             evicted == (DOMAIN records \cup {new}) \ DOMAIN records'
         IN /\ new \in DOMAIN records'
            /\ DOMAIN records' \subseteq DOMAIN records \cup {new}
            /\ IF Cardinality(DOMAIN records) < max_size
               THEN evicted = {}
               ELSE /\ Cardinality(DOMAIN records') = max_size
                    /\ evicted = {touched[1]}
                    /\ (/\ max_size >= 2
                        /\ ret.op = "get_recipe"
                        /\ ret.found) => ret.args[1] \notin evicted]_vars

\* after an overflowing save into a store of capacity 2, the first record is still
\* stored and the second is gone: the first was read in between
C2_Witness ==
    /\ ret.op = "save_recipe"
    /\ max_size = 2
    /\ next_id = 3
    /\ DOMAIN records = {1, 3}

\* C3: every entry returned by suggest_recipes(api_id, schema_hash, ...) is a stored
\* record that was saved with exactly that api_id and exactly that schema_hash
C3_SuggestsOnlyItsBucket ==
    ret.op = "suggest_recipes" =>
        \A n \in DOMAIN ret.val :
            /\ ret.val[n].recipe_id \in DOMAIN saved
            /\ saved[ret.val[n].recipe_id].key = <<ret.args[1], ret.args[2]>>

\* a suggestion came back while a record with the same question sits under the same
\* API with another schema_hash
C3_Witness ==
    /\ ret.op = "suggest_recipes"
    /\ Len(ret.val) >= 1
    /\ \E i \in DOMAIN records :
          /\ records[i].api_id = ret.args[1]
          /\ records[i].schema_hash # ret.args[2]
          /\ records[i].question = ret.val[1].question

\* C7: suggest_recipes(api_id, schema_hash, question, k) returns at most max(0, k)
\* entries; every entry has a score above 0; the entries are in non-increasing score
\* order, equal scores with the larger last_used_at first; no record of the bucket
\* with a score above that of a returned entry is left out
C7_RankedTopK ==
    ret.op = "suggest_recipes" =>
        LET out == ret.val
            raw == ret.raw
            k == ret.args[4]
            rest == SavedUnder(<<ret.args[1], ret.args[2]>>) \ EntryIds(out)
        IN /\ Len(out) <= MaxInt(0, k)
           /\ \A n \in DOMAIN out :
                 /\ out[n].score > 0
                 /\ out[n].score = Round4(raw[n])
                 /\ RatLess(<<0, 1>>, raw[n])
                 /\ raw[n] = Similarity(ret.args[3], saved[out[n].recipe_id].question)
           /\ \A n, m \in DOMAIN out :
                 n < m => /\ ~RatLess(raw[n], raw[m])
                          /\ RatEq(raw[n], raw[m]) =>
                                out[n].last_used_at >= out[m].last_used_at
           /\ \A i \in rest, n \in DOMAIN out :
                 ~RatLess(raw[n], Similarity(ret.args[3], saved[i].question))

\* two entries of one score came back, the more recently used one first
C7_Witness ==
    /\ ret.op = "suggest_recipes"
    /\ Len(ret.val) = 2
    /\ RatEq(ret.raw[1], ret.raw[2])
    /\ ret.val[1].last_used_at > ret.val[2].last_used_at

\* C8: suggest_recipes changes neither the records, nor any last_used_at, nor the LRU
\* order, and a call that follows a call with the same arguments, with no other store
\* operation in between, returns the same ordered list with the same scores
C8_SuggestIsIdempotent ==
    [][(ret'.op = "suggest_recipes" /\ now' = now) =>
         /\ records' = records
         /\ by_key' = by_key
         /\ lru' = lru
         /\ (ret.op = "suggest_recipes" /\ ret.args = ret'.args) =>
               (ret'.val = ret.val /\ ret'.raw = ret.raw)]_vars

\* the best match of the last suggest_recipes call is still the least recently used
\* record, with a last_used_at in the past
C8_Witness ==
    /\ ret.op = "suggest_recipes"
    /\ Len(ret.val) >= 1
    /\ Len(lru) = 2
    /\ lru[1] = ret.val[1].recipe_id
    /\ records[lru[1]].last_used_at < now

C5_StoredRecipeImmutable ==
    (ret.op = "get_recipe" /\ ret.found) => ret.val = saved[ret.args[1]].recipe

\* the names of the calls that look a recipe up in the store
LookupOps == {"get_recipe", "get_recipe_meta"}

\* the errors of the checks that come before the lookup
EarlierErrors == {"schema not loaded", "missing required param"}

\* a lookup of an id that is not stored returns None and leaves the records, the key
\* index and the LRU order as they were; so does an execution of such an id
C6_MissingLookupChangesNothing ==
    /\ (ret'.op \in LookupOps /\ ret'.args[1] \notin DOMAIN records) =>
          /\ ~ret'.found
          /\ UNCHANGED <<records, by_key, lru>>
    /\ (ret'.op \in ExecOps /\ ret'.invoked = <<>> /\ ~ret'.stored) =>
          UNCHANGED <<records, by_key, lru>>

\* C6 as stated: a lookup of an id that is not stored returns None and changes
\* nothing; an execution of such an id returns 'recipe not found' and runs no step
C6_AsStated ==
    [][/\ C6_MissingLookupChangesNothing
       /\ (ret'.op \in ExecOps /\ ~ret'.stored) =>
             /\ ret'.invoked = <<>>
             /\ ret'.error = "recipe not found"]_vars

\* C6: a lookup of an id that is not stored returns None and changes nothing; an
\* execution of such an id runs no step and returns an error, 'recipe not found' when
\* the call gets as far as the lookup, otherwise the error of the earlier check
C6_MissingIdRunsNoStep ==
    [][/\ C6_MissingLookupChangesNothing
       /\ (ret'.op \in ExecOps /\ ~ret'.stored) =>
             /\ ret'.invoked = <<>>
             /\ ret'.pc = "failed"
             /\ IF ret'.looked_up THEN ret'.error = "recipe not found"
                ELSE ret'.error \in EarlierErrors]_vars

\* the agent tool of a recipe that was evicted after the tool was bound is called
C6_Witness ==
    /\ ret.op = "dynamic_recipe_tool"
    /\ ret.looked_up
    /\ ~ret.stored
    /\ ret.error = "recipe not found"

\* the score is 0.0 by the rules of C9: a normalized string is empty, or the strings
\* differ and a token set is empty
ScoresZero(query, signature) ==
    \/ NormalizeQuestion(query) = <<>>
    \/ NormalizeQuestion(signature) = <<>>
    \/ /\ NormalizeQuestion(query) # NormalizeQuestion(signature)
       /\ Tokens(query) = {} \/ Tokens(signature) = {}

\* the score of a question against itself is 1.0 when its normalized form is not
\* empty; a stored question that scores 0.0 by the rules is not suggested
C9_SelfScoreAndZeroScore ==
    /\ NormalizeQuestion(asked[1]) # <<>> => Similarity(asked[1], asked[1]) = <<1, 1>>
    /\ ret.op = "suggest_recipes" =>
          \A i \in SavedUnder(<<ret.args[1], ret.args[2]>>) :
              ScoresZero(ret.args[3], saved[i].question) =>
                  /\ Similarity(ret.args[3], saved[i].question) = <<0, 1>>
                  /\ i \notin EntryIds(ret.val)

\* the entry of record i in the list out, with score 1.0
ReturnedWithFullScore(i) ==
    \E n \in DOMAIN ret.val :
        /\ ret.val[n].recipe_id = i
        /\ ret.val[n].score = 10000
        /\ ret.raw[n] = <<1, 1>>

\* the stored records of the bucket queried whose question is the query itself
SavedWithQuery ==
    {i \in SavedUnder(<<ret.args[1], ret.args[2]>>) :
        /\ saved[i].question = ret.args[3]
        /\ NormalizeQuestion(ret.args[3]) # <<>>}

\* C9 as stated: score(q, q) is 1.0 for a non-empty normalized q, a score that is 0.0
\* by the rules keeps the recipe out, and a recipe saved with question q is returned
\* by suggest for the query q with score 1.0 (here: whenever k is at least 1)
C9_AsStated ==
    /\ C9_SelfScoreAndZeroScore
    /\ (ret.op = "suggest_recipes" /\ ret.args[4] >= 1) =>
          \A i \in SavedWithQuery : ReturnedWithFullScore(i)

\* C9: score(q, q) is 1.0 for a non-empty normalized q, a score that is 0.0 by the
\* rules keeps the recipe out, and a recipe saved with question q is returned by
\* suggest for the query q with score 1.0 unless the list is full, with max(0, k)
\* entries of score 1.0
C9_ExactMatchScoresOne ==
    /\ C9_SelfScoreAndZeroScore
    /\ ret.op = "suggest_recipes" =>
          \A i \in SavedWithQuery :
              \/ ReturnedWithFullScore(i)
              \/ /\ Len(ret.val) = MaxInt(0, ret.args[4])
                 /\ \A n \in DOMAIN ret.val : ret.raw[n] = <<1, 1>>

\* two records were saved with the query's question, k is 1, and one of the two came
\* back with score 1.0
C9_Witness ==
    /\ ret.op = "suggest_recipes"
    /\ ret.args[4] = 1
    /\ Cardinality(SavedWithQuery) = 2
    /\ \E i \in SavedWithQuery : ReturnedWithFullScore(i)
    /\ \E i \in SavedWithQuery : ~ReturnedWithFullScore(i)

\* C10: two queries with the same set of lowercase alphanumeric tokens, neither equal
\* to the stored question s after normalization, score the same against s; and a
\* query scores higher against a stored question with the query's tokens (a
\* reordering of its words) than against one that shares fewer of its tokens
C10_ScoreIgnoresWordOrder ==
    ret.op = "_similarity" =>
        LET q1 == asked[1]
            q2 == asked[2]
            s == asked[3]
        IN /\ (/\ Tokens(q1) = Tokens(q2)
               /\ NormalizeQuestion(q1) # NormalizeQuestion(s)
               /\ NormalizeQuestion(q2) # NormalizeQuestion(s)) =>
                  ret.val.q1s = ret.val.q2s
           /\ (/\ Tokens(q1) = Tokens(q2)
               /\ Tokens(q1) # {}
               /\ Cardinality(Tokens(q1) \cap Tokens(s)) < Cardinality(Tokens(q1))) =>
                  /\ ret.val.q1q2 = <<1, 1>>
                  /\ RatLess(ret.val.q1s, ret.val.q1q2)

\* a two-word query, its words in the other order, and a stored question with one of
\* the two words, which scores above 0 and below the reordering
C10_Witness ==
    /\ ret.op = "_similarity"
    /\ Tokens(asked[1]) = Tokens(asked[2])
    /\ Cardinality(Tokens(asked[1])) = 2
    /\ NormalizeQuestion(asked[1]) # NormalizeQuestion(asked[2])
    /\ Cardinality(Tokens(asked[1]) \cap Tokens(asked[3])) = 1
    /\ RatLess(<<0, 1>>, ret.val.q1s)
    /\ ret.val.q1s = ret.val.q2s
    /\ RatLess(ret.val.q1s, ret.val.q1q2)

\* extract_recipe has returned a recipe: every check passed
Accepted == ret.op = "extract_recipe" /\ ret.pc \in {"save", "saved"}

\* the candidate was turned down: extract_recipe returned None or raised
TurnedDown == ret.op = "extract_recipe" /\ ret.pc \in {"rejected", "raised"}

\* the text a template renders to under params, compared after whitespace normalization
SameText(tmpl, params, text) ==
    /\ ~RenderTextTemplate(tmpl, params).raised
    /\ NormalizeWs(RenderTextTemplate(tmpl, params).val) = NormalizeWs(text)

\* the object a REST step renders to under params, compared by value, None as {}
SameObject(obj, params, orig) ==
    /\ ~RenderParamRefs(obj, params).raised
    /\ CanonObj(RenderParamRefs(obj, params).val) = CanonObj(orig)

\* the recipe, rendered with its own defaults, gives the calls of the trace
Reproduces(trace, recipe) ==
    LET defaults == [n \in WithDefault(recipe.params) |-> recipe.params[n].default]
    IN /\ Len(recipe.steps) = Len(trace.steps)
       /\ Len(recipe.sql_steps) = Len(trace.sql_steps)
       /\ \A i \in DOMAIN trace.steps :
             IF trace.api_type = "graphql"
             THEN SameText(recipe.steps[i].query_template, defaults, trace.steps[i].query)
             ELSE \A key \in Range(RestObjectKeys) :
                     SameObject(Get(recipe.steps[i], key, PyNone), defaults,
                                trace.steps[i][key])
       /\ \A i \in DOMAIN trace.sql_steps :
             SameText(recipe.sql_steps[i], defaults, trace.sql_steps[i])

\* the recipe with the default of one declared parameter changed to another value
ChangedDefaults(recipe) ==
    {[recipe EXCEPT !.params[n].default = d] :
        n \in WithDefault(recipe.params), d \in {PyInt(<<"1">>), PyInt(<<"2">>), PyNone}}
    \ {recipe}

\* C11: a recipe that extract_recipe accepts, rendered with its own defaults,
\* reproduces the trace: the GraphQL and SQL texts are equal after whitespace
\* normalization, the REST path_params, query_params and body are equal by value with
\* None counted as {}; and with a default changed so that a rendered value differs,
\* _validate_equivalence returns False.
C11_AcceptedRecipeReproducesTrace ==
    Accepted =>
        /\ Reproduces(asked, ret.recipe)
        /\ \A changed \in ChangedDefaults(ret.recipe) :
              ~Reproduces(asked, changed) =>
                  ValidateEquivalence(asked.api_type, asked.steps, asked.sql_steps, changed)
                      = Returned(FALSE)

\* a saved recipe with a parameter in a step and in a SQL template, whose default
\* cannot change without a rendered value changing
C11_Witness ==
    /\ ret.op = "extract_recipe"
    /\ ret.pc = "saved"
    /\ records[next_id].recipe = ret.recipe
    /\ <<"p">> \in FindUsedParams([ret.recipe EXCEPT !.sql_steps = <<>>], asked.api_type)
    /\ <<"p">> \in FindUsedParams([ret.recipe EXCEPT !.steps = <<>>], asked.api_type)
    /\ \A changed \in ChangedDefaults(ret.recipe) : ~Reproduces(asked, changed)

\* _validate_equivalence has just been called on the candidate
Validated == ret.op = "extract_recipe" /\ ret.done[Len(ret.done)] = "equivalence"

\* the candidate and the trace have different numbers of steps or of SQL statements
LengthDiffers ==
    \/ Len(ret.recipe.steps) # Len(asked.steps)
    \/ Len(ret.recipe.sql_steps) # Len(asked.sql_steps)

\* the indexes at which the candidate's step is of another kind than the trace's
KindDiffersAt ==
    {i \in DOMAIN asked.steps \cap DOMAIN ret.recipe.steps :
        Get(ret.recipe.steps[i], "kind", PyNone) # asked.steps[i].kind}

\* the outcome of the check of step i, and of SQL statement j, under the defaults
StepCheck(i) ==
    ValidateStep(asked.api_type, asked.steps[i], ret.recipe.steps[i],
                 GetParamsDefaults(ret.recipe.params))

SqlCheck(j) ==
    RendersTo(ret.recipe.sql_steps[j], GetParamsDefaults(ret.recipe.params),
              asked.sql_steps[j])

\* _validate_equivalence returned True only with every check passing
TrueOnlyIfAllPass ==
    ret.pc = "save" =>
        /\ ~LengthDiffers
        /\ \A i \in DOMAIN asked.steps : StepCheck(i) = Returned(TRUE)
        /\ \A j \in DOMAIN asked.sql_steps : SqlCheck(j) = Returned(TRUE)

\* C12, as stated: _validate_equivalence returns False whenever the numbers of steps
\* or of sql_steps differ or a step's kind differs from the original's at the same
\* index, and True only if every per-step and per-SQL check passes.
C12_AsStated ==
    Validated =>
        /\ (LengthDiffers \/ KindDiffersAt # {}) => ret.pc = "rejected"
        /\ TrueOnlyIfAllPass

\* C12, amended: _validate_equivalence returns False whenever the numbers of steps or
\* of sql_steps differ; when a step's kind differs it never returns True: it returns
\* False, unless the check of an earlier step raised KeyError for a parameter without
\* a default, and then the KeyError leaves the function; it returns True only if
\* every per-step and per-SQL check passes.
C12_FalseOrRaisedEarlier ==
    Validated =>
        /\ LengthDiffers => ret.pc = "rejected"
        /\ \A i \in KindDiffersAt :
              \/ ret.pc = "rejected"
              \/ /\ ret.pc = "raised"
                 /\ \E j \in 1..(i - 1) : StepCheck(j) = KeyError
        /\ TrueOnlyIfAllPass

\* a candidate of the right lengths whose second step is of another kind, and whose
\* first step names a parameter without a default
C12_Witness ==
    /\ Validated
    /\ ~LengthDiffers
    /\ KindDiffersAt = {2}
    /\ ret.pc = "raised"

\* the extractor's answer passes the four checks of extract_recipe, each made on the
\* candidate as the checks before it left it
PassesAllChecks(api_type, steps, sql_steps, output) ==
    /\ output # <<>>
    /\ "steps" \in DOMAIN output
    /\ "sql_steps" \in DOMAIN output
    /\ IsToolName(Get(output, "tool_name", <<>>))
    /\ LET with_params == [k \in DOMAIN output \cup {"params"} |->
                              IF k = "params" THEN Get(output, "params", <<>>) ELSE output[k]]
           usage == CheckParamUsageResult(with_params, api_type)
       IN /\ ~usage.rejected
          /\ ValidateEquivalence(api_type, steps, sql_steps, usage.recipe) = Returned(TRUE)

\* C13: a candidate that fails the structural check, the tool_name check, the
\* parameter-usage check or the equivalence check (a check that raises for a
\* referenced parameter without a default included) never reaches the store: as long
\* as the extraction has not saved, the records, the key index and the LRU order stay
\* what they were, and it saves only a candidate that passes every check.
C13_RejectedNeverReachesStore ==
    [][ret'.op = "extract_recipe" =>
          /\ ret'.pc = "saved" =>
                PassesAllChecks(asked.api_type, asked.steps, asked.sql_steps, asked.output)
          /\ ret'.pc # "saved" =>
                /\ records' = records
                /\ by_key' = by_key
                /\ lru' = lru
                /\ next_id' = next_id]_vars

\* the equivalence check raised on a candidate while the store held a record
C13_Witness ==
    /\ TurnedDown
    /\ ret.pc = "raised"
    /\ ~PassesAllChecks(asked.api_type, asked.steps, asked.sql_steps, asked.output)
    /\ DOMAIN records # {}
    /\ lru # <<>>

\* the names a candidate's templates reference without declaring them
Undeclared(output, api_type) ==
    FindUsedParams(output, api_type) \ DOMAIN Get(output, "params", <<>>)

\* C14: every recipe the extraction saves declares exactly the parameter names its
\* templates reference ({{name}} in sql_steps and query_template, {"$param": name} in
\* path_params, query_params and body); a candidate that references an undeclared
\* name is rejected by the usage check, and none is saved with a declared name that
\* no template references.
C14_DeclaredEqualsReferenced ==
    ret.op = "extract_recipe" =>
        /\ ret.pc = "saved" =>
              /\ DOMAIN records[next_id].recipe.params
                    = FindUsedParams(records[next_id].recipe, asked.api_type)
              /\ Undeclared(asked.output, asked.api_type) = {}
        /\ ("param_usage" \in Range(ret.done)
               /\ Undeclared(asked.output, asked.api_type) # {}) => ret.pc = "rejected"

\* a saved recipe whose candidate declared p and u and referenced only p
C14_Witness ==
    /\ ret.op = "extract_recipe"
    /\ ret.pc = "saved"
    /\ DOMAIN Get(asked.output, "params", <<>>) = {<<"p">>, <<"u">>}
    /\ DOMAIN records[next_id].recipe.params = {<<"p">>}
    /\ FindUsedParams(records[next_id].recipe, asked.api_type) = {<<"p">>}

\* the names a candidate declares that none of its templates references
DeclaredUnused(output, api_type) ==
    DOMAIN Get(output, "params", <<>>) \ FindUsedParams(output, api_type)

\* the parameter-usage check has been made on the candidate
UsageChecked == ret.op = "extract_recipe" /\ "param_usage" \in Range(ret.done)

\* the usage check turned the candidate down, and the equivalence was not attempted
RejectedByUsage ==
    /\ ret.pc = "rejected"
    /\ ret.done[Len(ret.done)] = "param_usage"
    /\ "equivalence" \notin Range(ret.done)

DeclaredUsed(output, api_type) ==
    DOMAIN Get(output, "params", <<>>) \cap FindUsedParams(output, api_type)

\* C16: when a candidate declares some parameters that are referenced and some that
\* are never referenced (and references none that is undeclared), the usage check
\* does not reject it: the unreferenced names are removed from its params map, the
\* remaining names keep their specs, and the rest of the candidate is unchanged.
C16_UnreferencedParamsPruned ==
    (/\ UsageChecked
     /\ DeclaredUsed(asked.output, asked.api_type) # {}
     /\ DeclaredUnused(asked.output, asked.api_type) # {}
     /\ Undeclared(asked.output, asked.api_type) = {}) =>
        /\ ~RejectedByUsage
        /\ DOMAIN ret.recipe.params = DeclaredUsed(asked.output, asked.api_type)
        /\ \A n \in DOMAIN ret.recipe.params : ret.recipe.params[n] = asked.output.params[n]
        /\ \A k \in DOMAIN asked.output \ {"params"} : ret.recipe[k] = asked.output[k]
        /\ DOMAIN ret.recipe = DOMAIN asked.output

\* the usage check has removed u and kept p with its spec
C16_Witness ==
    /\ UsageChecked
    /\ ret.pc = "equivalence"
    /\ DOMAIN Get(asked.output, "params", <<>>) = {<<"p">>, <<"u">>}
    /\ DOMAIN ret.recipe.params = {<<"p">>}
    /\ ret.recipe.params[<<"p">>] = asked.output.params[<<"p">>]

\* the names p and q that the input under test refers to without params holding them
MissingNames ==
    {n \in {<<"p">>, <<"q">>} :
        /\ n \notin DOMAIN asked.params
        /\ IF asked.kind = "text" THEN Placeholder(n) \in Range(asked.pieces)
           ELSE ParamRef(n) \in Range(asked.leaves)}

\* C17: rendering never defaults a missing parameter: render_text_template fails if a
\* {{name}} placeholder of the template names a key absent from params, and
\* render_param_refs fails if a {"$param": name} node names a key absent from params;
\* the failure is a KeyError and carries no rendered result, partial or whole. With
\* every referenced key present the renderers return.
C17_MissingParamFails ==
    ret.op \in {"render_text_template", "render_param_refs"} =>
        IF MissingNames # {}
        THEN /\ ret.out.raised
             /\ DOMAIN ret.out = {"raised", "error"}
        ELSE /\ ~ret.out.raised
             /\ asked.kind = "text" =>
                   \A n \in DOMAIN asked.params :
                       asked.pieces = <<Placeholder(n)>> =>
                          ret.out.val = AsText(asked.params[n])
             /\ asked.kind = "obj" =>
                   \A n \in DOMAIN asked.params :
                       asked.leaves[1] = ParamRef(n) =>
                          ret.out.val.v["a"] = asked.params[n]

\* render_text_template raised on a template with one placeholder whose key is there
\* and one whose key is missing
C17_Witness ==
    /\ ret.op = "render_text_template"
    /\ asked.pieces = <<Placeholder(<<"p">>), Placeholder(<<"q">>)>>
    /\ DOMAIN asked.params = {<<"p">>}
    /\ ret.out = KeyError

\* render_param_refs raised on an object with a reference whose key is missing under
\* a list
C17_WitnessRefs ==
    /\ ret.op = "render_param_refs"
    /\ asked.leaves[1] = ParamRef(<<"p">>)
    /\ asked.leaves[3] = ParamRef(<<"q">>)
    /\ DOMAIN asked.params = {<<"p">>}
    /\ ret.out = KeyError

\* the parameters have been validated for the call under test
ParamsValidated == ret.op = "execute_recipe"

\* the declared parameters without a default
NoDefault == {n \in DOMAIN asked.recipe.params : "default" \notin DOMAIN asked.recipe.params[n]}

\* the provided names that the recipe does not declare
Unexpected == DOMAIN asked.provided \ DOMAIN asked.recipe.params

\* C18: validation before execution treats a parameter with no declared default as
\* required (the call is declined with 'missing required param' when it is not
\* provided) and a parameter with a declared default, a default of null included, as
\* optional: not provided, validation succeeds and the value is the default;
\* provided values override defaults.  Stated for calls that provide declared names
\* only.
C18_DefaultMakesOptional ==
    (ParamsValidated /\ Unexpected = {}) =>
        IF NoDefault \ DOMAIN asked.provided # {}
        THEN /\ ret.pc = "declined"
             /\ ret.params = PyNone
             /\ ret.error[1] = "missing required param"
             /\ ret.error[2] \in NoDefault \ DOMAIN asked.provided
        ELSE /\ ret.pc # "declined"
             /\ ret.params.t = "dict"
             /\ DOMAIN ret.params.v = DOMAIN asked.recipe.params
             /\ \A n \in DOMAIN asked.recipe.params :
                   ret.params.v[n] = IF n \in DOMAIN asked.provided THEN asked.provided[n]
                                     ELSE asked.recipe.params[n].default

\* C19: validate_recipe_params rejects a call that provides a name the recipe's
\* params spec does not declare: it returns no params and an error that names the
\* unexpected parameters, and no step of the recipe runs.
C19_UnexpectedParamsRejected ==
    (ParamsValidated /\ Unexpected # {}) =>
        /\ ret.pc = "declined"
        /\ ret.params = PyNone
        /\ ret.error[1] = "unexpected params"
        /\ ret.invoked = <<>>

\* the step executor has reported failure for an API step
ApiStepFailed ==
    /\ ret.op = "execute_recipe"
    /\ ret.error # <<>>
    /\ ret.error[1] = "api step failed"

\* C20: if the step executor reports failure for API step i, execute_recipe_steps
\* returns success=False with that step's error and executed_sql=[]; the executor
\* has been called for the steps up to i and for none after it, no SQL step is
\* rendered or executed, and nothing more happens in the call.
C20_ApiFailureStopsRun ==
    [][/\ ApiStepFailed => ret' = ret
       /\ ApiStepFailed' =>
             /\ ret'.pc = "returned"
             /\ ret'.success = FALSE
             /\ ret'.executed_sql = <<>>
             /\ ret'.invoked = [k \in 1..ret'.error[2] |-> <<"api", k>>]]_vars

\* the first of two API steps failed in a recipe that has SQL steps
C20_Witness ==
    /\ ApiStepFailed
    /\ ret.error[2] = 1
    /\ Len(asked.recipe.steps) = 2
    /\ asked.recipe.sql_steps # <<>>
    /\ ret.pc = "returned"
    /\ ret.invoked = <<<<"api", 1>>>>

\* the states of a recipe execution
RunningApi == ret.op = "execute_recipe" /\ ret.pc = "api"

RunningSql == ret.op = "execute_recipe" /\ ret.pc = "sql"

RunDone == ret.op = "execute_recipe" /\ ret.pc = "returned" /\ ret.success

RunFailed ==
    /\ ret.op = "execute_recipe"
    /\ ret.pc \in {"returned", "raised"}
    /\ ~ret.success

\* the calls made so far: the API steps 1..k in order, then the SQL steps 1..m in
\* order, SQL only after every API step
InListOrder ==
    ret.op = "execute_recipe" =>
        \E k \in 0..Len(asked.recipe.steps), m \in 0..Len(asked.recipe.sql_steps) :
           /\ ret.invoked = [i \in 1..k |-> <<"api", i>>] \o [j \in 1..m |-> <<"sql", j>>]
           /\ (m > 0 \/ ret.pc = "sql" \/ RunDone) => k = Len(asked.recipe.steps)
           /\ RunDone => m = Len(asked.recipe.sql_steps)

\* a step of an execution: at most one call is made, the state moves forward only,
\* and nothing happens after DONE or FAILED
OneCallForward ==
    /\ (RunDone \/ RunFailed) => ret' = ret
    /\ ret.op = "execute_recipe" =>
          /\ \/ ret'.invoked = ret.invoked
             \/ /\ Len(ret'.invoked) = Len(ret.invoked) + 1
                /\ SubSeq(ret'.invoked, 1, Len(ret.invoked)) = ret.invoked
          /\ RunningApi => (RunningApi' \/ RunningSql' \/ RunFailed')
          /\ RunningSql => (RunningSql' \/ RunDone' \/ RunFailed')
          /\ (RunFailed' /\ ~RunFailed) => ret'.error # <<>>

\* C21: every recipe execution follows PENDING -> RUNNING_API -> RUNNING_SQL -> DONE
\* or ends in FAILED at the first error: API steps are invoked in list order, one at
\* a time, each at most once; SQL steps are executed in list order after all API
\* steps succeeded, each at most once; nothing is invoked after FAILED or DONE; and
\* with every step call returning, the execution reaches DONE or FAILED.
C21_ExecutionStateMachine ==
    /\ []InListOrder
    /\ [][OneCallForward]_vars
    /\ (RunningApi \/ RunningSql) ~> (RunDone \/ RunFailed)

\* an execution of two API steps and two SQL steps that is DONE
C21_Witness ==
    /\ RunDone
    /\ ret.invoked = <<<<"api", 1>>, <<"api", 2>>, <<"sql", 1>>, <<"sql", 2>>>>

\* an SQL step has failed
SqlStepFailed ==
    /\ ret.op = "execute_recipe"
    /\ ret.error # <<>>
    /\ ret.error[1] = "sql failed"

\* C22: when SQL step j fails, no SQL step after j is rendered or executed and step
\* j's error is returned; nothing done by the API phase is undone: the shared result
\* sets still hold every table merged by the successful API steps, and the
\* executed-items list still holds their call records.
C22_SqlFailureKeepsApiPhase ==
    [][/\ SqlStepFailed => ret' = ret
       /\ (SqlStepFailed' /\ ~SqlStepFailed) =>
             /\ ret'.pc = "returned"
             /\ ret'.success = FALSE
             /\ ret'.invoked = [i \in 1..Len(asked.recipe.steps) |-> <<"api", i>>]
                                  \o [j \in 1..ret'.error[2] |-> <<"sql", j>>]
             /\ Len(ret'.executed_sql) = ret'.error[2]
             /\ ret'.results = ret.results
             /\ ret'.results = {<<"api", i>> : i \in 1..Len(asked.recipe.steps)}
             /\ ret'.executed_items = ret.executed_items]_vars

\* the first of two SQL steps failed after two API steps that returned call records
C22_Witness ==
    /\ SqlStepFailed
    /\ ret.error[2] = 1
    /\ Len(asked.recipe.sql_steps) = 2
    /\ ret.results = {<<"api", 1>>, <<"api", 2>>}
    /\ ret.executed_items = <<<<"api", 1>>, <<"api", 2>>>>

\* execute_recipe_steps has returned a failure
FailureReturned == ret.op = "execute_recipe" /\ ret.pc = "returned" /\ ~ret.success

\* C23: when a step fails during replay, the caller of the recipe execution
\* receives, together with the error, the partial set of steps already executed: the
\* call records of the API steps that succeeded and the SQL statements already run.
C23_PartialProgressReturned ==
    (FailureReturned /\ ret.invoked # <<>>) =>
        /\ ret.response.error = ret.error
        /\ DOMAIN ret.response = {"error", "executed", "executed_sql"}
        /\ ret.response.executed = ret.executed_items
        /\ ret.response.executed_sql = ret.executed_sql

\* the execution has come to an end by an error
EndedInError == ret.op = "execute_recipe" /\ ret.pc \in {"returned", "raised"} /\ ~ret.success

\* C24: a step failure during recipe execution, a template that references a
\* parameter missing from the effective params in an API step or in an SQL step
\* included, is reported as a structured error result (success=False with an error
\* text) and never as an exception that leaves execute_recipe_steps or
\* execute_recipe_tool.
C24_FailureIsStructuredResult ==
    EndedInError =>
        /\ ret.pc = "returned"
        /\ ret.error # <<>>
        /\ ret.response.error = ret.error

\* the tables of the API steps that returned data, and the call records returned
WithData == {i \in DOMAIN ret.outcomes : ret.outcomes[i].data}

WithCallRec == {i \in DOMAIN ret.outcomes : ret.outcomes[i].call_rec}

\* C25: on full success execute_recipe_steps returns success=True, an executed_sql
\* list with one entry per sql_steps template in order, the i-th the i-th template
\* rendered with params, one executed item per API step that returned a call record,
\* and last_data equal to the result of the last SQL step if the recipe has SQL
\* steps, otherwise the data of the last API step that returned data other than
\* None.
C25_FullSuccessResult ==
    RunDone =>
        /\ ret.error = <<>>
        /\ Len(ret.executed_sql) = Len(asked.recipe.sql_steps)
        /\ \A j \in DOMAIN asked.recipe.sql_steps :
              ret.executed_sql[j] = Substitute(asked.recipe.sql_steps[j], ret.params.v)
        /\ Len(ret.outcomes) = Len(asked.recipe.steps)
        /\ Len(ret.executed_items) = Cardinality(WithCallRec)
        /\ {ret.executed_items[n][2] : n \in DOMAIN ret.executed_items} = WithCallRec
        /\ \A n \in 1..(Len(ret.executed_items) - 1) :
              ret.executed_items[n][2] < ret.executed_items[n + 1][2]
        /\ asked.recipe.sql_steps # <<>> =>
              ret.last_data = <<"sql", Len(asked.recipe.sql_steps)>>
        /\ (asked.recipe.sql_steps = <<>> /\ WithData # {}) =>
              ret.last_data = <<"api", CHOOSE i \in WithData : \A k \in WithData : k <= i>>

\* a recipe without SQL steps is done; its first API step returned data and a call
\* record, its second neither
C25_Witness ==
    /\ RunDone
    /\ asked.recipe.sql_steps = <<>>
    /\ WithData = {1}
    /\ WithCallRec = {1}
    /\ Len(ret.outcomes) = 2
    /\ ret.last_data = <<"api", 1>>

\* a recipe with a rendered SQL step is done
C25_WitnessSql ==
    /\ RunDone
    /\ Len(asked.recipe.sql_steps) = 2
    /\ <<"p">> \in Range(FindAllPlaceholders(asked.recipe.sql_steps[2]))
    /\ ret.last_data = <<"sql", 2>>


\* a request has returned from the success path
QueryDone == ret.op = "process_query" /\ ret.pc = "returned"

\* the step in which the request in flight returns
QueryReturns == ret = Running /\ ret'.op = "process_query" /\ ret'.pc = "returned"

\* the request in flight tracked a polling attempt
Polled == \E i \in DOMAIN asked.rest_calls : "poll_attempt" \in DOMAIN asked.rest_calls[i]

\* C26: maybe_extract_and_save_recipe neither awaits the extractor nor changes the
\* store when recipes are disabled, when skip_condition is true, when no step was
\* recorded or when the raw schema is empty; a REST request that tracked a polling
\* attempt is such a request, so it never produces a recipe.
C26_SkippedExtractionLeavesStore ==
    [][(/\ QueryReturns
        /\ \/ ~asked.enabled
           \/ asked.steps = <<>>
           \/ asked.raw_schema = ""
           \/ asked.api_type = "rest" /\ Polled)
       => /\ ~ret'.invoked
          /\ ret'.save = <<>>
          /\ records' = records
          /\ by_key' = by_key
          /\ lru' = lru]_vars

\* a REST request that polled has returned: recipes are enabled, steps were recorded,
\* the schema is there and the extractor would have answered with a recipe, and the
\* store, which holds a recipe of an earlier request, was left alone
C26_Witness ==
    /\ QueryDone
    /\ asked.api_type = "rest"
    /\ Polled
    /\ asked.enabled
    /\ asked.steps # <<>>
    /\ asked.raw_schema # ""
    /\ asked.answer.kind = "dict"
    /\ ~ret.invoked
    /\ next_id = 1
    /\ ret.key \in DOMAIN by_key
    /\ by_key[ret.key] = ret.before

\* C27: maybe_extract_and_save_recipe never raises: whatever the extractor returns or
\* throws, the call returns and the caller gives the successful response it had
\* computed.
C27_ExtractionNeverDisturbsResponse ==
    QueryDone =>
        /\ ~ret.raised
        /\ ret.response.ok
        /\ ret.response.data = <<"o">>
        /\ ret.response.error = <<>>
        /\ ret.response.calls = asked.rest_calls

\* the extractor was awaited and raised; the exception was logged
C27_Witness ==
    /\ QueryDone
    /\ ret.invoked
    /\ asked.answer.kind = "raises"
    /\ ret.logged
    /\ ret.response.ok

\* the extractor returned an object that is no dict
C27_WitnessNoDict ==
    /\ QueryDone
    /\ ret.invoked
    /\ asked.answer.kind = "list"
    /\ ret.logged

\* the ids stored under the key of the request in flight
Bucket == IF <<ExtractKey(asked.api_type)[1], Sha256Hex(asked.raw_schema)>> \in DOMAIN by_key
          THEN by_key[<<ExtractKey(asked.api_type)[1], Sha256Hex(asked.raw_schema)>>]
          ELSE <<>>

\* C28: when the store already holds, under the same (api_id, schema_hash), a recipe
\* equal to the one extracted, save_recipe is not called and the number of records
\* under that key is unchanged.
C28_DuplicateNotSaved ==
    [][(/\ QueryReturns
        /\ ret'.invoked
        /\ asked.answer.kind = "dict"
        /\ \E i \in DOMAIN Bucket : records[Bucket[i]].recipe = asked.answer.recipe)
       => /\ ret'.save = <<>>
          /\ by_key' = by_key]_vars

\* C29: a recipe saved with the tool_name of a different recipe already stored under
\* the same (api_id, schema_hash) is stored under a suffixed name, so the tool_names
\* of different recipes under one key are pairwise distinct.
C29_ToolNamesDistinctInBucket ==
    \A key \in DOMAIN by_key :
       \A i, j \in DOMAIN by_key[key] :
          (/\ i # j
           /\ records[by_key[key][i]].recipe # records[by_key[key][j]].recipe
           /\ "tool_name" \in DOMAIN records[by_key[key][i]].recipe
           /\ "tool_name" \in DOMAIN records[by_key[key][j]].recipe)
          => records[by_key[key][i]].tool_name # records[by_key[key][j]].tool_name


\* a call of deduplicate_tool_name is in its loop, has returned
Deduplicating == ret.op = "deduplicate_tool_name" /\ ret.pc = "while"

Deduplicated == ret.op = "deduplicate_tool_name" /\ ret.pc = "returned"

\* the name returned is the base name if that was not seen, and otherwise the base
\* name with the smallest suffix from 2 on that was not seen
SmallestFree ==
    IF ret.base_name \notin ret.before THEN ret.tool_name = ret.base_name
    ELSE \E n \in 2..(Cardinality(ret.before) + 2) :
            /\ ret.tool_name = Suffixed(ret.base_name, n)
            /\ \A m \in 2..(n - 1) : Suffixed(ret.base_name, m) \in ret.before

\* C30: deduplicate_tool_name(base, seen) terminates and returns a name that was not
\* in seen before the call: base if base was not in seen, otherwise base_n for the
\* smallest n >= 2 with base_n not in seen; it adds the name to seen.  All names
\* returned by calls that share one seen set are pairwise distinct.
C30_DeduplicateToolName ==
    /\ [](Deduplicated =>
             /\ ret.tool_name \notin ret.before
             /\ SmallestFree
             /\ agent.seen_names = ret.before \cup {ret.tool_name})
    /\ [](ret.op = "deduplicate_tool_name" =>
             \A i, j \in DOMAIN agent.names : i # j => agent.names[i] # agent.names[j])
    /\ (Deduplicating ~> Deduplicated)

\* three calls with the bases a, a and a_2 on a set that held a_3: the second
\* returned a_2, the third a_2_2
C30_Witness ==
    /\ Deduplicated
    /\ agent.names = << <<"a">>, <<"a", "_", "2">>, <<"a", "_", "2", "_", "2">> >>
    /\ ret.base_name = <<"a", "_", "2">>
    /\ <<"a", "_", "3">> \in agent.seen_names

\* a call that went round the loop more than once: a and a_2 were seen, a_3 is
\* returned
C30_WitnessLoop ==
    /\ Deduplicated
    /\ ret.base_name = <<"a">>
    /\ ret.tool_name = <<"a", "_", "3">>
    /\ ret.counter = 4


\* C31: every read of the record table, the key index, the LRU order and a record's
\* last_used_at is made with the store lock held, so the list suggest_recipes
\* returns (membership, order, last_used_at values) is the list computed from one
\* store state that existed at an instant during the call.
C31_SuggestReadsOneStoreState ==
    asked.pc = "done" => asked.val \in asked.at


\* what the request of task h reads through its context
RequestView(h) == ViewOf(agent.heap, agent.task[h].ctx)

\* the tool calls of the request task h is handling, or has handled last
OwnTags(h) == {Tag(h, agent.task[h].r, n) : n \in 1..MaxTools}

\* C32: the per-request state (queries or calls, recipe steps, SQL steps, result
\* tables, the last-result slot, the direct-return flag) is reset at the start of
\* every process_query / process_rest_query, and of two concurrent requests neither
\* reads or changes a value recorded by the other.
C32_RequestStateIsolated ==
    \A h \in Handlers :
       agent.task[h].r > 0 =>
          /\ \A v \in CtxVars :
                /\ agent.task[h].ctx[v] # Unset
                /\ \A i \in DOMAIN RequestView(h)[v] : RequestView(h)[v][i] \in OwnTags(h)
                /\ \A g \in Handlers \ {h}, w \in CtxVars :
                      agent.task[g].ctx[w] # agent.task[h].ctx[v]
          /\ agent.task[h].pc = "running" /\ agent.task[h].spawned = 0 =>
                \A v \in CtxVars : RequestView(h)[v] = <<>>
          /\ \A t \in DOMAIN agent.tool :
                t[1] = h => agent.tool[t].saw \subseteq OwnTags(h)

\* both tasks are in a request, the first task in its second, and in each a tool call
\* has recorded its query
C32_Witness ==
    /\ agent.task[1].pc = "running"
    /\ agent.task[2].pc = "running"
    /\ agent.task[1].r = 2
    /\ RequestView(1)["graphql_queries"] = <<Tag(1, 2, 1)>>
    /\ RequestView(2)["graphql_queries"] = <<Tag(2, 1, 1)>>
    /\ RequestView(2)["last_result"] = <<Tag(2, 1, 1)>>

\* the tool calls of task h that are over
DoneTools(h) == {n \in 1..MaxTools : <<h, n>> \in DOMAIN agent.tool
                                       /\ agent.tool[<<h, n>>].pc = "done"}

\* tool call n of task h comes to its end in this step
ToolCompletes(h, n) ==
    /\ <<h, n>> \in DOMAIN agent.tool
    /\ agent.tool[<<h, n>>].pc = "spawned"
    /\ agent'.tool[<<h, n>>].pc = "done"

\* C33: every update a tool call makes in a child task of the request (a result
\* table, a last result, an appended query, recipe step or SQL step, the
\* direct-return flag) is visible to the parent request once the tool call is over,
\* and to the sibling tool calls of the request.
C33_ChildUpdatesVisible ==
    /\ [](\A h \in Handlers : \A n \in DoneTools(h) :
             /\ \A v \in agent.tool[<<h, n>>].wrote \ {"last_result"} :
                   \E i \in DOMAIN RequestView(h)[v] :
                      RequestView(h)[v][i] = Tag(h, agent.task[h].r, n)
             /\ "last_result" \in agent.tool[<<h, n>>].wrote =>
                   \E m \in DoneTools(h) :
                      /\ "last_result" \in agent.tool[<<h, m>>].wrote
                      /\ RequestView(h)["last_result"] = <<Tag(h, agent.task[h].r, m)>>)
    /\ [][\A h \in Handlers : \A n \in 1..MaxTools :
             ToolCompletes(h, n) =>
                /\ \A v \in agent'.tool[<<h, n>>].wrote :
                      \E i \in DOMAIN ViewOf(agent'.heap, agent'.task[h].ctx)[v] :
                         ViewOf(agent'.heap, agent'.task[h].ctx)[v][i]
                            = Tag(h, agent.task[h].r, n)
                /\ \A m \in DoneTools(h) :
                      agent.tool[<<h, m>>].wrote # {} =>
                         Tag(h, agent.task[h].r, m) \in agent'.tool[<<h, n>>].saw]_vars

\* a request is over whose graphql_query call stored a table and whose sql_query
\* call, which read that table, stored the last result and set the flag
C33_Witness ==
    /\ ret.op = "process_query"
    /\ ret.task = 1
    /\ agent.task[1].pc = "idle"
    /\ DoneTools(1) = {1, 2}
    /\ agent.tool[<<1, 1>>].wrote = {"graphql_queries", "query_results", "recipe_steps", "last_result"}
    /\ agent.tool[<<1, 2>>].wrote = {"last_result", "sql_steps", "return_directly_flag"}
    /\ Tag(1, 1, 1) \in agent.tool[<<1, 2>>].saw
    /\ RequestView(1)["last_result"] = <<Tag(1, 1, 2)>>
    /\ RequestView(1)["query_results"] = <<Tag(1, 1, 1)>>
    /\ RequestView(1)["return_directly_flag"] = <<Tag(1, 1, 2)>>


\* C34: _sanitize_for_tool_name returns a name of at most 40 characters for every
\* question, also for a question whose sanitized form starts with a digit and gets
\* the r_ prefix.
C34_NameAtMostCap ==
    ret.op = "_sanitize_for_tool_name" => Len(ret.val) <= NameCap


\* the ids the key index lists
Indexed == UNION {Range(by_key[key]) : key \in DOMAIN by_key}

\* C35: after any sequence of operations the ids of the record table, of the LRU
\* order and of the key index are the same set; every id listed under a key has a
\* record with that api_id and schema_hash; no key maps to an empty set; and an id
\* that is not stored is returned by neither get_recipe nor suggest_recipes.  This
\* holds also when save_recipe generates an id that is in use.
C35_StoreStructuresConsistent ==
    /\ DOMAIN records = Range(lru)
    /\ DOMAIN records = Indexed
    /\ \A key \in DOMAIN by_key :
          /\ by_key[key] # <<>>
          /\ \A i \in DOMAIN by_key[key] :
                by_key[key][i] \in DOMAIN records =>
                   /\ records[by_key[key][i]].api_id = key[1]
                   /\ records[by_key[key][i]].schema_hash = key[2]
    /\ ret.op \in {"get_recipe", "get_recipe_meta"} /\ ret.found => ret.args[1] \in DOMAIN records
    /\ ret.op = "suggest_recipes" =>
          \A n \in DOMAIN ret.val : ret.val[n].recipe_id \in DOMAIN records

\* the templates execute_recipe_steps renders for the call in flight: those of the
\* steps by the step executor, then the SQL templates
RendersOfCall ==
    [i \in DOMAIN asked.recipe.steps |->
        RenderStep(asked.api_type, asked.recipe.steps[i], ret.params.v)]
    \o [i \in DOMAIN asked.recipe.sql_steps |->
           RenderTextTemplate(asked.recipe.sql_steps[i], ret.params.v)]

\* C36: when a recipe saved by the extraction path is called with provided
\* parameters that validate_recipe_params accepts, no template of the recipe names
\* a parameter that the effective params lack, and no render of the execution
\* raises the missing-parameter KeyError
C36_AcceptedCallRendersEveryTemplate ==
    (ret.op = "execute_recipe" /\ ret.pc # "declined")
        => /\ \A i \in DOMAIN RendersOfCall : ~RendersOfCall[i].raised
           /\ ret.pc # "raised"

\* an extracted recipe with a placeholder ran to its return on the default of p
C36_Witness ==
    /\ ret.op = "execute_recipe"
    /\ ret.pc = "returned"
    /\ ret.success
    /\ <<"p">> \in DOMAIN asked.recipe.params
    /\ <<"p">> \notin DOMAIN asked.provided
    /\ Len(ret.invoked) = Len(asked.recipe.steps) + Len(asked.recipe.sql_steps)
    /\ Len(ret.invoked) > 0

\* C37: in a GraphQL request whose schema fetch fails, recipe search returns no
\* suggestions, no recipe tool is created, and no recipe is extracted or saved,
\* whatever raw schema an earlier request of the same context obtained
C37_FailedFetchUsesNoEarlierSchema ==
    (ret.op = "process_query" /\ asked.fetched = "")
        => /\ ret.suggestions = <<>>
           /\ agent.tools = {}
           /\ ret.pc = "returned" => (~ret.invoked /\ ret.save = <<>>)

\* a request whose fetch failed after a request whose fetch had succeeded
C37_FailedAfterFetched ==
    /\ ret.op = "process_query"
    /\ asked.fetched = ""
    /\ agent.handled > 1
    /\ agent.raw_schema # ""

\* C38: a replayed REST step whose method is POST, PUT, DELETE or PATCH sends no
\* request and fails unless its path matches a pattern of the allowlist of the
\* request that replays it; whether the step is blocked does not depend on the
\* allowlist of the request the recipe was extracted from
C38_ReplayUsesOwnAllowlist ==
    (ret.op = "rest_step_executor" /\ UpperMethod(ret.method) \in UnsafeMethods)
        => /\ ~IsPathAllowed(ret.path, asked.replay_paths)
                  => (ret.out # "sent" /\ ~ret.success)
           /\ (IsPathAllowed(ret.path, asked.replay_paths) /\ ret.base_url # "")
                  => ret.out = "sent"

\* an unsafe step recorded under an allowlist that admits its path was blocked in a
\* replay whose allowlist does not
C38_Witness ==
    /\ ret.op = "rest_step_executor"
    /\ UpperMethod(ret.method) \in UnsafeMethods
    /\ IsPathAllowed(ret.path, asked.extract_paths)
    /\ ~IsPathAllowed(ret.path, asked.replay_paths)
    /\ asked.replay_paths # <<>>
    /\ ret.out = "blocked"

\* C39: for every set of headers and every non-recipe tool name on_list_tools
\* returns under them, on_call_tool with that name under the same headers forwards
\* the call to the internal tool the name was made from, also when the API name is
\* r or starts with r_
C39_ListedNameReachesInternalTool ==
    ret.op = "on_call_tool" => ret.call = [kind |-> "forwarded", name |-> ret.tool]

\* the round trip for an API name that does not begin like a recipe tool
C39_RoundTripOtherNames ==
    (ret.op = "on_call_tool" /\ ~StartsWith(ExtractApiName(asked) \o <<"_">>, RecipePrefixStr))
        => ret.call = [kind |-> "forwarded", name |-> ret.tool]

\* the call has come to its end
PollEnded == ret.op = "poll_until_done" /\ ret.pc \in {"returned", "raised"}

\* the done field of a response, compared the way the loop compares it
PollMatches(response) ==
    /\ response.success
    /\ LowerText(StrOf(GetNestedValue(response.data))) = LowerText(asked.done_value)

\* C40: poll_until_done sends at most MAX_POLLS requests and ends by returning: a
\* failure at the first unsuccessful request and at a first response without the
\* done field, success only when the done field of the latest response equals
\* done_value as lowercase strings, no request after the return, and the max_polls
\* error when every one of the MAX_POLLS responses came and none matched
C40_PollReturnsWithinMaxPolls ==
    ret.op = "poll_until_done" =>
        /\ Len(ret.responses) = ret.attempt
        /\ ret.attempt <= MaxPolls
        /\ ret.pc # "raised"
        /\ \A i \in 1..(Len(ret.responses) - 1) :
              /\ ret.responses[i].success
              /\ ~PollMatches(ret.responses[i])
              /\ i = 1 => GetNestedValue(ret.responses[1].data) # PyNone
        /\ (PollEnded /\ ret.result.success)
              => PollMatches(ret.responses[Len(ret.responses)])
        /\ (PollEnded /\ ret.responses # <<>> /\ ~ret.responses[Len(ret.responses)].success)
              => ~ret.result.success
        /\ (PollEnded /\ \A i \in DOMAIN ret.responses :
                             /\ ret.responses[i].success
                             /\ ~PollMatches(ret.responses[i])
                             /\ i = 1 => GetNestedValue(ret.responses[1].data) # PyNone)
              => /\ ret.result = [success |-> FALSE, error |-> "max_polls exceeded",
                                  attempts |-> MaxPolls]
                 /\ ret.attempt = MaxPolls

\* every call comes to its end
C40_PollTerminates == <>PollEnded

====
